---- MODULE Spec2Model ----
(***************************************************************************)
(* A model of nyx, a Tailwind CSS class formatter and linter.              *)
(*                                                                         *)
(*   - the patch engine of src/src/fixer.ts (applyFixes and                *)
(*     spliceChangesIntoString), as operators over sequences of characters,*)
(*     exercised by the specification SpecFix;                             *)
(*   - the run pipeline of src/src/cli.ts (run) with the fingerprint cache *)
(*     of src/src/cache.ts, as the state machine Spec.                     *)
(***************************************************************************)
EXTENDS Integers, Sequences, FiniteSets, TLC

(***************************************************************************)
(* Bounds of the model.                                                    *)
(***************************************************************************)
\* longest text handed to applyFixes
MaxTextLen == 4
\* most diagnostics in one applyFixes call
MaxEdits == 2
\* most class names in the class attribute of a template file
MaxTokens == 2

\* the longest base name, in name atoms
MaxNameLen == 5

\* the latest modification time a file takes under SpecCache
MaxMtime == 2

(***************************************************************************)
(* Generic helpers.                                                        *)
(***************************************************************************)
\* the characters a text under test is made of, all different, so that a
\* character of the output identifies the position it came from
Chars == <<"a", "b", "c", "d", "e", "f">>

\* replacement strings: shorter than, as long as and longer than the spans
\* they replace, made of characters no text holds
Replacements == {<<"x">>, <<"y", "z">>}

Min(a, b) == IF a < b THEN a ELSE b

SeqsUpTo(S, n) == UNION {[1..k -> S] : k \in 0..n}

RECURSIVE SumSeq(_)
SumSeq(s) == IF s = <<>> THEN 0 ELSE Head(s) + SumSeq(Tail(s))

(***************************************************************************)
(* src/src/fixer.ts                                                        *)
(***************************************************************************)
\* String.prototype.slice(a, b) for a, b >= 0: both ends are clamped to the
\* length and the result is empty when a >= b.  Offsets are 0-based.
Slice(str, a, b) ==
    LET lo == Min(a, Len(str))
        hi == Min(b, Len(str))
    IN  IF lo >= hi THEN <<>> ELSE SubSeq(str, lo + 1, hi)

\* String.prototype.slice(a): to the end of the string
SliceFrom(str, a) == Slice(str, a, Len(str))

CompareChanges(a, b) ==
    IF a.end - b.end # 0 THEN a.end - b.end ELSE a.start - b.start

\* Array.prototype.sort is stable: an element goes after every element that
\* does not compare greater than it.
RECURSIVE InsertChange(_, _)
InsertChange(sorted, x) ==
    IF sorted = <<>> THEN <<x>>
    ELSE IF CompareChanges(Head(sorted), x) > 0 THEN <<x>> \o sorted
    ELSE <<Head(sorted)>> \o InsertChange(Tail(sorted), x)

RECURSIVE SortChanges(_)
SortChanges(changes) ==
    IF changes = <<>> THEN <<>>
    ELSE InsertChange(SortChanges(SubSeq(changes, 1, Len(changes) - 1)),
                      changes[Len(changes)])

\* the loop of spliceChangesIntoString, from index i on
RECURSIVE SpliceLoopFromPreviousStart(_, _, _, _, _)
SpliceLoopFromPreviousStart(str, changes, i, previous, result) ==
    IF i > Len(changes) THEN result \o SliceFrom(str, previous.end)
    ELSE SpliceLoopFromPreviousStart(str, changes, i + 1, changes[i],
                    result \o Slice(str, previous.start, changes[i].start)
                           \o changes[i].replacement)

RECURSIVE SpliceLoop(_, _, _, _, _)
SpliceLoop(str, changes, i, previous, result) ==
    IF i > Len(changes) THEN result \o SliceFrom(str, previous.end)
    ELSE SpliceLoop(str, changes, i + 1, changes[i],
                    result \o Slice(str, previous.end, changes[i].start)
                           \o changes[i].replacement)

spliceChangesIntoStringNoSort(str, changes) ==
    IF changes = <<>> THEN str
    ELSE LET previous == changes[1]
         IN  SpliceLoop(str, changes, 2, previous,
                        Slice(str, 0, previous.start) \o previous.replacement)

spliceChangesIntoString(str, changes) ==
    IF changes = <<>> THEN str
    ELSE LET sorted == SortChanges(changes)
             previous == sorted[1]
         IN  SpliceLoop(str, sorted, 2, previous,
                        Slice(str, 0, previous.start) \o previous.replacement)

\* the StringChange of a Diagnostic
ChangeOf(d) ==
    [start |-> d.offset, end |-> d.offset + d.length, replacement |-> d.canonical]

applyFixesEmptyOnNone(content, diagnostics) ==
    IF Len(diagnostics) = 0 THEN <<>>
    ELSE spliceChangesIntoString(content,
             [i \in 1..Len(diagnostics) |-> ChangeOf(diagnostics[i])])

applyFixes(content, diagnostics) ==
    IF Len(diagnostics) = 0 THEN content
    ELSE spliceChangesIntoString(content,
             [i \in 1..Len(diagnostics) |-> ChangeOf(diagnostics[i])])

(***************************************************************************)
(* The classifier (the Tailwind design system), an external service: a     *)
(* pure function of the class names.  Three utilities of one property      *)
(* stand for the vocabulary; h-[72px] is the arbitrary-value spelling of   *)
(* h-18 (src/tests/fixer.test.ts:21-22).                                   *)
(***************************************************************************)
Tokens == {"h-[72px]", "h-0", "h-18"}

\* designSystem.canonicalizeCandidates([c])[0]
Canon(c) == IF c = "h-[72px]" THEN "h-18" ELSE c

\* designSystem.getClassOrder: the order of a known class; -1 stands for the
\* null of a class the design system does not know
ClassOrder(c) ==
    CASE c = "h-0" -> 1
      [] c = "h-18" -> 2
      [] c = "h-[72px]" -> 3
      [] OTHER -> -1

\* a.localeCompare(b) as a rank: punctuation sorts before digits, so
\* "h-[72px]" < "h-0" < "h-18"
LocaleRank(c) ==
    CASE c = "h-[72px]" -> 1
      [] c = "h-0" -> 2
      [] c = "h-18" -> 3
      [] OTHER -> 4

\* the length of a class name in characters
TokenLen(c) ==
    CASE c = "h-[72px]" -> 8
      [] c = "h-0" -> 3
      [] c = "h-18" -> 4
      [] OTHER -> 1

(***************************************************************************)
(* src/src/sorter.ts.  A file is modelled by the value of its class        *)
(* attribute, a sequence of class names; an offset counts class names.     *)
(***************************************************************************)
\* a stable sort of a sequence of classes by a rank
RECURSIVE InsertByRank(_, _, _)
InsertByRank(sorted, x, rank) ==
    IF sorted = <<>> THEN <<x>>
    ELSE IF rank[Head(sorted)] > rank[x] THEN <<x>> \o sorted
    ELSE <<Head(sorted)>> \o InsertByRank(Tail(sorted), x, rank)

RECURSIVE SortByRank(_, _)
SortByRank(classes, rank) ==
    IF classes = <<>> THEN <<>>
    ELSE InsertByRank(SortByRank(SubSeq(classes, 1, Len(classes) - 1), rank),
                      classes[Len(classes)], rank)

sortAlphabetical(classes) ==
    SortByRank(classes, [c \in Tokens |-> LocaleRank(c)])

sortTailwind(classes) ==
    LET unknown == SelectSeq(classes, LAMBDA c : ClassOrder(c) < 0)
        known == SelectSeq(classes, LAMBDA c : ClassOrder(c) >= 0)
    IN  unknown \o SortByRank(known, [c \in Tokens |-> ClassOrder(c)])

\* classesToSort without the guard of line 58
classesToSortUnguarded(content) == <<content>>

\* findUnsortedClasses, lines 57-58: the class lists of the attribute that are
\* handed on to the sort (sortAlphabetical or sortTailwind and its
\* designSystem.getClassOrder): none when there is at most one class
classesToSort(content) ==
    IF Len(content) <= 1 THEN <<>> ELSE <<content>>

findUnsortedClasses(content, strategy) ==
    LET lists == classesToSort(content)
    IN  IF lists = <<>> THEN <<>>
        ELSE LET classes == lists[1]
                 sorted == IF strategy = "alphabetical" THEN sortAlphabetical(classes)
                           ELSE sortTailwind(classes)
             IN  IF sorted # classes
                 THEN <<[offset |-> 0, length |-> Len(content), canonical |-> sorted]>>
                 ELSE <<>>

(***************************************************************************)
(* src/unnamed/part_000 (canonicalize.ts)                                  *)
(***************************************************************************)
RECURSIVE NonCanonicalFrom(_, _)
NonCanonicalFrom(content, i) ==
    IF i > Len(content) THEN <<>>
    ELSE (IF Canon(content[i]) # content[i]
          THEN <<[offset |-> i - 1, length |-> 1,
                  canonical |-> <<Canon(content[i])>>]>>
          ELSE <<>>) \o NonCanonicalFrom(content, i + 1)

findNonCanonicalClasses(content) == NonCanonicalFrom(content, 1)

(***************************************************************************)
(* src/tsup.config.ts (config.ts): resolveConfig, hashConfig, and the      *)
(* argument declarations of the commands in src/src/cli.ts.  An optional   *)
(* value is a sequence: <<>> for undefined, <<v>> for the value v.         *)
(***************************************************************************)
\* Number(cliArgs.rem) for the strings of the model
NumberOf(str) ==
    CASE str = "20" -> 20
      [] str = "8" -> 8
      [] OTHER -> 0

\* no nyx.config.json: loadConfigFile returns null
NoConfigFile ==
    [present |-> FALSE, css |-> <<>>, rem |-> <<>>, collapse |-> <<>>,
     strategy |-> <<>>, cache |-> <<>>]

\* config.field = value, when the optional value is defined
Assign(config, field, opt) ==
    IF opt # <<>> THEN [config EXCEPT ![field] = opt[1]] ELSE config

\* resolveConfig, lines 74-84
defaults ==
    [css |-> "undefined", rem |-> 16, collapse |-> FALSE, strategy |-> "tailwind",
     cache |-> FALSE, fix |-> FALSE, json |-> FALSE, quiet |-> FALSE,
     verbose |-> FALSE]

\* resolveConfig, lines 90-98: the values of the config file, when there is one
ApplyConfigFile(config, configFile) ==
    IF ~configFile.present THEN config
    ELSE Assign(Assign(Assign(Assign(Assign(config,
             "css", configFile.css),
             "rem", configFile.rem),
             "collapse", configFile.collapse),
             "strategy", configFile.strategy),
             "cache", configFile.cache)

\* resolveConfig, lines 101-110: the CLI values, rem through Number
ApplyCliArgs(config, cliArgs) ==
    Assign(Assign(Assign(Assign(Assign(Assign(Assign(Assign(Assign(config,
        "css", cliArgs.css),
        "rem", IF cliArgs.rem # <<>> THEN <<NumberOf(cliArgs.rem[1])>> ELSE <<>>),
        "collapse", cliArgs.collapse),
        "strategy", cliArgs.strategy),
        "fix", cliArgs.fix),
        "json", cliArgs.json),
        "quiet", cliArgs.quiet),
        "verbose", cliArgs.verbose),
        "cache", cliArgs.cache)

\* resolveConfig with the config file applied after the CLI values
resolveConfigFileOverCli(cliArgs, configFile, rawArgs) ==
    LET config == ApplyConfigFile(ApplyCliArgs(defaults, cliArgs), configFile)
    IN  IF "--no-cache" \in rawArgs THEN [config EXCEPT !.cache = FALSE] ELSE config

\* resolveConfig: defaults, then the config file, then the CLI, then --no-cache
resolveConfig(cliArgs, configFile, rawArgs) ==
    LET hasExplicitNoCache == "--no-cache" \in rawArgs
        config == ApplyCliArgs(ApplyConfigFile(defaults, configFile), cliArgs)
    IN  IF hasExplicitNoCache THEN [config EXCEPT !.cache = FALSE] ELSE config

\* the args a command hands to run for a set of flags on the command line:
\* a boolean argument declared with default: false is false, not undefined,
\* when its flag is absent; format declares no collapse argument
ParseArgs(cmd, rawArgs) ==
    [css |-> IF "--css=missing.css" \in rawArgs THEN <<"missing.css">>
             ELSE IF "--css=app.css" \in rawArgs THEN <<"app.css">> ELSE <<>>,
     rem |-> <<>>, strategy |-> <<>>,
     collapse |-> IF cmd \in {"lint", "check"} THEN <<"--collapse" \in rawArgs>>
                  ELSE IF "--collapse" \in rawArgs THEN <<TRUE>> ELSE <<>>,
     fix |-> <<"--fix" \in rawArgs>>,
     json |-> <<"--json" \in rawArgs>>,
     quiet |-> <<"--quiet" \in rawArgs>>,
     verbose |-> <<"--verbose" \in rawArgs>>,
     cache |-> <<"--cache" \in rawArgs /\ "--no-cache" \notin rawArgs>>]

\* run, lines 285-288: the options the lint pass hands to findNonCanonicalClasses
lintOptions(config) == [rem |-> config.rem, collapse |-> config.collapse]

\* findNonCanonicalClasses, lines 57-60: the options canonicalizeCandidates
\* is invoked with
canonicalizeOptions(options) == [rem |-> options.rem, collapse |-> FALSE]

\* hashConfig with fix among the hashed options
hashConfigWithFix(config, cssContent) ==
    <<config.css, config.rem, config.collapse, config.strategy, config.fix,
      cssContent>>

\* the digest is taken to be collision-free: the hash is the hashed data
hashConfig(config, cssContent) ==
    <<config.css, config.rem, config.collapse, config.strategy, cssContent>>

(***************************************************************************)
(* src/src/cache.ts                                                        *)
(***************************************************************************)
EmptyFiles == [f \in {} |-> 0]

\* no cache.json on disk
NoSnapshot ==
    [state |-> "absent", version |-> "", configHash |-> <<>>, files |-> EmptyFiles]

\* a cache.json that fs.readFileSync cannot read
UnreadableSnapshot ==
    [state |-> "unreadable", version |-> "", configHash |-> <<>>, files |-> EmptyFiles]

\* a cache.json that JSON.parse rejects
GarbageSnapshot ==
    [state |-> "garbage", version |-> "", configHash |-> <<>>, files |-> EmptyFiles]

\* a cache.json holding the object {version, configHash} and no files member
NoFilesSnapshot(version, configHash) ==
    [state |-> "nofiles", version |-> version, configHash |-> configHash,
     files |-> EmptyFiles]

\* the cache manager of createNoopCache
NoopCache ==
    [kind |-> "noop", version |-> "", configHash |-> <<>>, files |-> EmptyFiles,
     filesDefined |-> TRUE]

\* the size of a file: its class names joined by single spaces
ByteLength(content) ==
    SumSeq([i \in 1..Len(content) |-> TokenLen(content[i])])
        + (IF Len(content) > 0 THEN Len(content) - 1 ELSE 0)

\* fs.statSync of a file of the model
StatOf(file) == [mtimeMs |-> file.mtimeMs, size |-> ByteLength(file.content)]

\* createCache that never loads the snapshot
createCacheAlwaysFresh(version, configHash, snap) ==
    [kind |-> "fs", version |-> version, configHash |-> configHash,
     files |-> EmptyFiles, filesDefined |-> TRUE]

\* createCache with the comparison of raw.configHash left out
createCacheIgnoringConfigHash(version, configHash, snap) ==
    LET fresh == [kind |-> "fs", version |-> version, configHash |-> configHash,
                  files |-> EmptyFiles, filesDefined |-> TRUE]
    IN  IF snap.state \in {"absent", "unreadable", "garbage"} THEN fresh
        ELSE IF snap.version = version
        THEN [fresh EXCEPT !.files = snap.files,
                           !.filesDefined = (snap.state = "json")]
        ELSE fresh

\* createCache: the cache manager, given the persisted snapshot.  data is the
\* parsed snapshot when its scope matches (data = raw, line 47), whatever
\* members it has: filesDefined is FALSE when raw has no files member.  An
\* absent file, a read error and a parse error leave the store empty.
createCache(version, configHash, snap) ==
    LET fresh == [kind |-> "fs", version |-> version, configHash |-> configHash,
                  files |-> EmptyFiles, filesDefined |-> TRUE]
    IN  IF snap.state \in {"absent", "unreadable", "garbage"} THEN fresh
        ELSE IF snap.version = version /\ snap.configHash = configHash
        THEN [fresh EXCEPT !.files = snap.files,
                           !.filesDefined = (snap.state = "json")]
        ELSE fresh

\* data.files[absolutePath] (line 60) raises a TypeError when data.files is
\* undefined; the read is outside the try block
isFileCachedThrows(c) == c.kind = "fs" /\ ~c.filesDefined

\* isFileCached with the comparison of stat.size left out
isFileCachedByMtimeOnly(c, fs, path) ==
    IF c.kind = "noop" THEN FALSE
    ELSE IF isFileCachedThrows(c) THEN FALSE
    ELSE IF path \notin DOMAIN c.files THEN FALSE
    ELSE IF path \notin DOMAIN fs THEN FALSE
    ELSE StatOf(fs[path]).mtimeMs = c.files[path].mtimeMs

\* isFileCached: the value returned (FALSE stands for no value when the call
\* throws); a file that is not on disk makes fs.statSync throw, which is caught
isFileCached(c, fs, path) ==
    IF c.kind = "noop" THEN FALSE
    ELSE IF isFileCachedThrows(c) THEN FALSE
    ELSE IF path \notin DOMAIN c.files THEN FALSE
    ELSE IF path \notin DOMAIN fs THEN FALSE
    ELSE /\ StatOf(fs[path]).mtimeMs = c.files[path].mtimeMs
         /\ StatOf(fs[path]).size = c.files[path].size

\* markClean without the no-op manager: it keeps a store of its own
markCleanOnAnyManager(c, fs, path) ==
    IF path \notin DOMAIN fs THEN c
    ELSE IF ~c.filesDefined THEN c
    ELSE [c EXCEPT !.files =
            [p \in DOMAIN c.files \cup {path} |->
                IF p = path THEN StatOf(fs[path]) ELSE c.files[p]]]

\* markClean: the store afterwards; the stat of a missing file and the
\* assignment to a member of an undefined data.files both throw inside the
\* try block and leave the store as it is
markClean(c, fs, path) ==
    IF c.kind = "noop" THEN c
    ELSE IF path \notin DOMAIN fs THEN c
    ELSE IF ~c.filesDefined THEN c
    ELSE [c EXCEPT !.files =
            [p \in DOMAIN c.files \cup {path} |->
                IF p = path THEN StatOf(fs[path]) ELSE c.files[p]]]

\* delete data.files[absolutePath] (line 85) raises a TypeError when
\* data.files is undefined; there is no try block
markDirtyThrows(c) == c.kind = "fs" /\ ~c.filesDefined

\* markDirty that empties the store
markDirtyRemovesAll(c, path) ==
    IF c.kind = "noop" THEN c
    ELSE IF markDirtyThrows(c) THEN c
    ELSE [c EXCEPT !.files = EmptyFiles]

\* markDirty: the store afterwards
markDirty(c, path) ==
    IF c.kind = "noop" THEN c
    ELSE IF markDirtyThrows(c) THEN c
    ELSE [c EXCEPT !.files = [p \in DOMAIN c.files \ {path} |-> c.files[p]]]

\* write that persists the store without its entries
writeWithoutEntries(c, snap) ==
    IF c.kind = "noop" THEN snap
    ELSE [state |-> IF c.filesDefined THEN "json" ELSE "nofiles",
          version |-> c.version, configHash |-> c.configHash,
          files |-> EmptyFiles]

\* write: the snapshot on disk after a cache.write() that succeeded;
\* JSON.stringify leaves out a member that is undefined
write(c, snap) ==
    IF c.kind = "noop" THEN snap
    ELSE [state |-> IF c.filesDefined THEN "json" ELSE "nofiles",
          version |-> c.version, configHash |-> c.configHash,
          files |-> c.files]

(***************************************************************************)
(* State.                                                                  *)
(***************************************************************************)
VARIABLES
    fxContent,      \* applyFixes: the content argument
    fxDiagnostics,  \* applyFixes: the diagnostics argument
    fxResult,       \* applyFixes: the returned string
    fxPc            \* "call" before applyFixes has run, "done" after

VARIABLES
    disk,           \* the template files: path -> [content, mtimeMs]
    snapshot,       \* node_modules/.cache/nyx/cache.json, or NoSnapshot
    cfgStrategy,    \* nyx.config.json: strategy
    cfgCache,       \* nyx.config.json: cache
    pc,             \* "idle", "pass" (before a pass), "finish", "done"
    kinds,          \* run: the passes of the subcommand
    config,         \* run: the resolved configuration
    cache,          \* run: the store of the cache manager, or NoopCache
    previouslyCachedFiles,  \* run: the cache hits computed before the first pass
    filesWithIssues,        \* run: files with a diagnostic in some pass
    hasIssues,      \* run: some pass had a diagnostic
    kindIdx,        \* run: the index in kinds of the current pass
    totalDiagnostics,       \* run: the diagnostics of the current pass
    exitCode,       \* the exit code of the last run, 0 while a run is in progress
    passLog         \* history: what each pass of the run read and left, in order

VARIABLES
    lastCall        \* history: the last call on the cache manager or file change

VARIABLES
    stderr,         \* run: the messages written with console.error, in order
    ioDone,         \* history: the kinds of file I/O the run has done
    repeats,        \* history: the run repeats the fix run that ended before it
    snapshotWrites  \* history: how often the run has written cache.json

VARIABLES
    rcCmd,          \* the subcommand, or "none" for a direct call of resolveConfig
    rcRaw,          \* rawArgs: the flags on the command line
    rcCli,          \* resolveConfig: the cliArgs argument
    rcFile,         \* resolveConfig: the configFile argument
    rcCss,          \* the text of the CSS entry point
    rcConfig,       \* the resolved configuration
    rcOptions,      \* the options the classifier is invoked with
    rcPc            \* "call", "resolved", "run", "linted"

VARIABLES
    dfName,         \* isTemplateFile: the base name of filePath
    dfResult,       \* isTemplateFile: the returned boolean
    dfPc            \* "call" before isTemplateFile has run, "done" after

VARIABLES
    scText,         \* the content argument of the two passes
    scStrategy,     \* findUnsortedClasses: options.strategy
    scSorted,       \* findUnsortedClasses: the returned diagnostics
    scLint,         \* findNonCanonicalClasses: the returned diagnostics
    scSearches,     \* history: where each search of CLASS_ATTR_RE started and matched
    scOffset,       \* offsetToLineColumn: the offset argument
    scPos,          \* offsetToLineColumn: what the copy of each pass returns
    scPc            \* "call", "sorted", "linted", "done"

fxVars == <<fxContent, fxDiagnostics, fxResult, fxPc>>

runVars == <<pc, kinds, config, cache, previouslyCachedFiles, filesWithIssues,
             hasIssues, kindIdx, totalDiagnostics, exitCode, passLog>>

envVars == <<disk, snapshot, cfgStrategy, cfgCache>>

unitVars == <<lastCall>>

obsVars == <<stderr, ioDone, repeats, snapshotWrites>>

rcVars == <<rcCmd, rcRaw, rcCli, rcFile, rcCss, rcConfig, rcOptions, rcPc>>

dfVars == <<dfName, dfResult, dfPc>>

scVars == <<scText, scStrategy, scSorted, scLint, scSearches, scOffset, scPos,
            scPc>>

vars == <<fxVars, envVars, runVars, unitVars, obsVars, rcVars, dfVars, scVars>>

\* no run has written a message or done file I/O
ObsIdle ==
    /\ stderr = <<>>
    /\ ioDone = {}
    /\ repeats = FALSE
    /\ snapshotWrites = 0

\* the two passes are not called on their own
ScanIdle ==
    /\ scText = <<>>
    /\ scStrategy = "tailwind"
    /\ scSorted = <<>>
    /\ scLint = <<>>
    /\ scSearches = <<>>
    /\ scOffset = 0
    /\ scPos = <<>>
    /\ scPc = "off"

\* isTemplateFile is not called on its own
FilesIdle ==
    /\ dfName = <<>>
    /\ dfResult = FALSE
    /\ dfPc = "off"

\* isTemplateFile and the two passes are not called on their own
TextIdle == FilesIdle /\ ScanIdle

\* resolveConfig is not called on its own
ConfigIdle ==
    /\ rcCmd = "none"
    /\ rcRaw = {}
    /\ rcCli = <<>>
    /\ rcFile = <<>>
    /\ rcCss = ""
    /\ rcConfig = <<>>
    /\ rcOptions = <<>>
    /\ rcPc = "off"

(***************************************************************************)
(* SpecFix: one call of applyFixes on every bounded input.                 *)
(***************************************************************************)
Texts == {SubSeq(Chars, 1, n) : n \in 0..MaxTextLen}

\* the diagnostics whose span lies inside the text
DiagnosticsOn(text) ==
    {[offset |-> o, length |-> l, canonical |-> r] :
        o \in 0..Len(text), l \in 0..Len(text), r \in Replacements}
    \cap [offset : 0..Len(text), length : 0..Len(text), canonical : Replacements]

InRange(text, d) == d.offset + d.length <= Len(text)

\* no call on a cache manager has been recorded
NoCall == [op |-> "none", path |-> "", threw |-> FALSE]

\* the pipeline does not run under SpecFix
PipelineIdle ==
    /\ lastCall = NoCall
    /\ disk = <<>>
    /\ snapshot = NoSnapshot
    /\ cfgStrategy = "tailwind"
    /\ cfgCache = FALSE
    /\ pc = "off"
    /\ kinds = <<>>
    /\ config = <<>>
    /\ cache = NoopCache
    /\ previouslyCachedFiles = {}
    /\ filesWithIssues = {}
    /\ hasIssues = FALSE
    /\ kindIdx = 0
    /\ totalDiagnostics = 0
    /\ exitCode = 0
    /\ passLog = <<>>

FixInit ==
    /\ PipelineIdle
    /\ ObsIdle
    /\ ConfigIdle
    /\ TextIdle
    /\ fxPc = "call"
    /\ fxContent \in Texts
    /\ fxDiagnostics \in
         SeqsUpTo({d \in DiagnosticsOn(fxContent) : InRange(fxContent, d)}, MaxEdits)
    /\ fxResult = <<>>

ApplyFixesCall ==
    /\ fxPc = "call"
    /\ fxResult' = applyFixes(fxContent, fxDiagnostics)
    /\ fxPc' = "done"
    /\ UNCHANGED <<fxContent, fxDiagnostics, envVars, runVars, unitVars, obsVars, rcVars,
                   dfVars, scVars>>

FixNext == ApplyFixesCall

SpecFix == FixInit /\ [][FixNext]_vars

(***************************************************************************)
(* Spec: the run pipeline of src/src/cli.ts over two template files.       *)
(***************************************************************************)
Files == {"a.html", "b.html"}

\* discoverFiles: the template files, in discovery order
filesToProcess == <<"a.html", "b.html">>

Contents == SeqsUpTo(Tokens, MaxTokens)

\* the contents a file takes: a.html any, b.html at most one class name
ContentsOf(filePath) ==
    IF filePath = "a.html" THEN Contents ELSE SeqsUpTo(Tokens, 1)

Version == "0.1.0"

CssContent == "@import 'tailwindcss'"

\* KindsOf with the passes of check in the other order
KindsOfLintFirst(cmd) ==
    CASE cmd = "format" -> <<"format">>
      [] cmd = "lint" -> <<"lint">>
      [] cmd = "check" -> <<"lint", "format">>

\* the passes of a subcommand (format, lint, check)
KindsOf(cmd) ==
    CASE cmd = "format" -> <<"format">>
      [] cmd = "lint" -> <<"lint">>
      [] cmd = "check" -> <<"format", "lint">>

\* the diagnostics of one pass on one content
Diagnose(kind, content, cfg) ==
    IF kind = "format" THEN findUnsortedClasses(content, cfg.strategy)
    ELSE findNonCanonicalClasses(content)

\* the flags of a run: --fix or not, and --cache, --no-cache or neither
RawArgsOf(fix, cacheFlag) ==
    (IF fix THEN {"--fix"} ELSE {}) \cup (IF cacheFlag = "none" THEN {} ELSE {cacheFlag})

\* nyx.config.json of the project: strategy and cache
ConfigFile ==
    [present |-> TRUE, css |-> <<>>, rem |-> <<>>, collapse |-> <<>>,
     strategy |-> <<cfgStrategy>>, cache |-> <<cfgCache>>]

\* run, lines 222-224: the configuration of a command run with the flags
ConfigOf(cmd, rawArgs) == resolveConfig(ParseArgs(cmd, rawArgs), ConfigFile, rawArgs)

ResolvedConfig(cmd, fix, cacheFlag) == ConfigOf(cmd, RawArgsOf(fix, cacheFlag))

\* the CSS entry points of the project: app.css imports tailwindcss
CssFiles == {"app.css"}

\* resolveCssPath throws: --css names a file that does not exist (without
\* --css the entry point app.css is detected)
resolveCssPathThrows(css) == css # "undefined" /\ css \notin CssFiles

\* discoverFiles: the template files under the paths of the command line;
\* the directory docs holds none
discoverFiles(paths) == IF paths = "docs" THEN <<>> ELSE filesToProcess

\* Startup with the cache initialised before the design system is loaded
StartupCacheFirst(cfg) ==
    [failed |-> resolveCssPathThrows(cfg.css),
     cache |-> IF cfg.cache
               THEN createCache(Version, hashConfig(cfg, CssContent), snapshot)
               ELSE NoopCache,
     io |-> IF cfg.cache THEN {"readSnapshot"} ELSE {}]

\* run, lines 228-247: load the design system, then initialise the cache
Startup(cfg) ==
    IF resolveCssPathThrows(cfg.css)
    THEN [failed |-> TRUE, cache |-> NoopCache, io |-> {}]
    ELSE [failed |-> FALSE,
          cache |-> IF cfg.cache
                    THEN createCache(Version, hashConfig(cfg, CssContent), snapshot)
                    ELSE NoopCache,
          io |-> IF cfg.cache THEN {"readSnapshot"} ELSE {}]

\* ExitCodeOf without the test on fix
ExitCodeIgnoringFix(cfg, issues) == IF issues THEN 1 ELSE 0

\* run, lines 343-345: the exit code of a run that reached its end
ExitCodeOf(cfg, issues) == IF ~cfg.fix /\ issues THEN 1 ELSE 0

\* the patch engine does not run under Spec
FixIdle ==
    /\ fxContent = <<>>
    /\ fxDiagnostics = <<>>
    /\ fxResult = <<>>
    /\ fxPc = "off"

\* no run is in progress and nothing is left of the last one
NoProcess ==
    /\ pc = "idle"
    /\ kinds = <<>>
    /\ config = ResolvedConfig("check", FALSE, "none")
    /\ cache = NoopCache
    /\ previouslyCachedFiles = {}
    /\ filesWithIssues = {}
    /\ hasIssues = FALSE
    /\ kindIdx = 0
    /\ totalDiagnostics = 0
    /\ exitCode = 0
    /\ passLog = <<>>

Init ==
    /\ FixIdle
    /\ ObsIdle
    /\ ConfigIdle
    /\ TextIdle
    /\ lastCall = NoCall
    /\ disk \in {d \in [Files -> [content : Contents, mtimeMs : {1}]] :
                    \A f \in Files : d[f].content \in ContentsOf(f)}
    /\ snapshot = NoSnapshot
    /\ cfgStrategy \in {"tailwind", "alphabetical"}
    /\ cfgCache = TRUE
    /\ NoProcess

\* the states a run starts in: before the first run and after a run that
\* reached its end; a run that exited early is the last one of a behaviour
Ended == {"idle", "done"}

\* run, lines 220-267: resolve the configuration, load the design system,
\* create the cache, discover the files and compute the cache hits
StartRun(cmd, fix, cacheFlag) ==
    /\ pc \in Ended
    /\ DOMAIN disk = Files
    /\ discoverFiles(".") # <<>>
    /\ LET cfg == ResolvedConfig(cmd, fix, cacheFlag)
           up == Startup(cfg)
           c == up.cache
       IN  /\ ~up.failed
           /\ config' = cfg
           /\ cache' = c
           /\ previouslyCachedFiles' =
                {filesToProcess[i] : i \in {j \in 1..Len(filesToProcess) :
                                              isFileCached(c, disk, filesToProcess[j])}}
           /\ ioDone' = up.io \cup {"discover"}
           /\ repeats' = (pc = "done" /\ cfg.fix /\ cfg = config /\ KindsOf(cmd) = kinds)
    /\ kinds' = KindsOf(cmd)
    /\ hasIssues' = FALSE
    /\ filesWithIssues' = {}
    /\ kindIdx' = 1
    /\ totalDiagnostics' = 0
    /\ passLog' = <<>>
    /\ stderr' = <<>>
    /\ snapshotWrites' = 0
    /\ exitCode' = 0
    /\ pc' = "pass"
    /\ UNCHANGED <<envVars, fxVars, unitVars, rcVars,
                   dfVars, scVars>>

\* run, lines 228-235: the design system cannot be loaded, here because
\* --css names a missing file: report and exit 1
LoadFails(cmd, fix, cacheFlag) ==
    /\ pc \in Ended
    /\ DOMAIN disk = Files
    /\ LET cfg == ConfigOf(cmd, RawArgsOf(fix, cacheFlag) \cup {"--css=missing.css"})
           up == Startup(cfg)
       IN  /\ up.failed
           /\ config' = cfg
           /\ cache' = up.cache
           /\ ioDone' = up.io
    /\ stderr' = <<"CSS file not found">>
    /\ exitCode' = 1
    /\ kinds' = <<>>
    /\ previouslyCachedFiles' = {}
    /\ hasIssues' = FALSE
    /\ filesWithIssues' = {}
    /\ kindIdx' = 0
    /\ totalDiagnostics' = 0
    /\ passLog' = <<>>
    /\ repeats' = FALSE
    /\ snapshotWrites' = 0
    /\ pc' = "failed"
    /\ UNCHANGED <<envVars, fxVars, unitVars, rcVars,
                   dfVars, scVars>>

\* run, lines 220-255, for paths that hold no template file: report and
\* exit 0 after the cache is created, without cache.write
NoFilesRun(cmd, fix, cacheFlag) ==
    /\ pc \in Ended
    /\ DOMAIN disk = Files
    /\ discoverFiles("docs") = <<>>
    /\ LET cfg == ResolvedConfig(cmd, fix, cacheFlag)
           up == Startup(cfg)
       IN  /\ ~up.failed
           /\ config' = cfg
           /\ cache' = up.cache
           /\ ioDone' = up.io \cup {"discover"}
    /\ stderr' = <<"No template files found to process.">>
    /\ exitCode' = 0
    /\ kinds' = <<>>
    /\ previouslyCachedFiles' = {}
    /\ hasIssues' = FALSE
    /\ filesWithIssues' = {}
    /\ kindIdx' = 0
    /\ totalDiagnostics' = 0
    /\ passLog' = <<>>
    /\ repeats' = FALSE
    /\ snapshotWrites' = 0
    /\ pc' = "nofiles"
    /\ UNCHANGED <<envVars, fxVars, unitVars, rcVars,
                   dfVars, scVars>>

\* the part of the state the inner loop works on
LoopState ==
    [disk |-> disk, cache |-> cache, filesWithIssues |-> filesWithIssues,
     totalDiagnostics |-> 0, passLog |-> passLog, crashed |-> FALSE]

\* SkipsFile that skips no file
SkipsFileNever(st, filePath) == FALSE

\* whether the inner loop skips the file (line 274)
SkipsFileByLiveCache(st, filePath) == isFileCached(st.cache, st.disk, filePath)

SkipsFile(st, filePath) == filePath \in previouslyCachedFiles

\* fs.writeFileSync(filePath, fixed): the content and a later mtime
WriteFile(fs, filePath, content) ==
    [fs EXCEPT ![filePath] = [content |-> content, mtimeMs |-> @.mtimeMs + 1]]

\* the record of one file in one pass
LogEntry(filePath, content, diagnostics, written) ==
    [pass |-> kindIdx,
     kind |-> kinds[kindIdx],
     file |-> filePath,
     read |-> content,
     ordered |-> IF kinds[kindIdx] = "format" THEN classesToSort(content) ELSE <<>>,
     diagnostics |-> diagnostics,
     left |-> written[filePath].content]

\* ProcessFile with fs.writeFileSync(filePath, content) in place of
\* fs.writeFileSync(filePath, fixed)
ProcessFileWritesContentRead(st, filePath) ==
    IF st.crashed \/ SkipsFile(st, filePath) THEN st
    ELSE IF filePath \notin DOMAIN st.disk THEN [st EXCEPT !.crashed = TRUE]
    ELSE LET content == st.disk[filePath].content
             diagnostics == Diagnose(kinds[kindIdx], content, config)
             fixing == Len(diagnostics) > 0 /\ config.fix
             written == IF fixing THEN WriteFile(st.disk, filePath, content)
                        ELSE st.disk
         IN  [disk |-> written,
              cache |-> IF fixing THEN markClean(st.cache, written, filePath)
                        ELSE st.cache,
              filesWithIssues |-> IF Len(diagnostics) > 0
                                  THEN st.filesWithIssues \cup {filePath}
                                  ELSE st.filesWithIssues,
              totalDiagnostics |-> st.totalDiagnostics + Len(diagnostics),
              passLog |-> Append(st.passLog,
                                 LogEntry(filePath, content, diagnostics, written)),
              crashed |-> FALSE]

\* ProcessFile with cache.markClean(filePath) before fs.writeFileSync
ProcessFileStampsBeforeWrite(st, filePath) ==
    IF st.crashed \/ SkipsFile(st, filePath) THEN st
    ELSE IF filePath \notin DOMAIN st.disk THEN [st EXCEPT !.crashed = TRUE]
    ELSE LET content == st.disk[filePath].content
             diagnostics == Diagnose(kinds[kindIdx], content, config)
             fixed == applyFixes(content, diagnostics)
             fixing == Len(diagnostics) > 0 /\ config.fix
             written == IF fixing THEN WriteFile(st.disk, filePath, fixed)
                        ELSE st.disk
         IN  [disk |-> written,
              cache |-> IF fixing THEN markClean(st.cache, st.disk, filePath)
                        ELSE st.cache,
              filesWithIssues |-> IF Len(diagnostics) > 0
                                  THEN st.filesWithIssues \cup {filePath}
                                  ELSE st.filesWithIssues,
              totalDiagnostics |-> st.totalDiagnostics + Len(diagnostics),
              passLog |-> Append(st.passLog,
                                 LogEntry(filePath, content, diagnostics, written)),
              crashed |-> FALSE]

\* ProcessFile without the test on config.fix at line 292
ProcessFileWritesWithoutFix(st, filePath) ==
    IF st.crashed \/ SkipsFile(st, filePath) THEN st
    ELSE IF filePath \notin DOMAIN st.disk THEN [st EXCEPT !.crashed = TRUE]
    ELSE LET content == st.disk[filePath].content
             diagnostics == Diagnose(kinds[kindIdx], content, config)
             fixed == applyFixes(content, diagnostics)
             fixing == Len(diagnostics) > 0
             written == IF fixing THEN WriteFile(st.disk, filePath, fixed)
                        ELSE st.disk
         IN  [disk |-> written,
              cache |-> IF fixing THEN markClean(st.cache, written, filePath)
                        ELSE st.cache,
              filesWithIssues |-> IF Len(diagnostics) > 0
                                  THEN st.filesWithIssues \cup {filePath}
                                  ELSE st.filesWithIssues,
              totalDiagnostics |-> st.totalDiagnostics + Len(diagnostics),
              passLog |-> Append(st.passLog,
                                 LogEntry(filePath, content, diagnostics, written)),
              crashed |-> FALSE]

\* run, lines 274-299: one file in one pass; fs.readFileSync at line 276 is
\* in no try block, so a file that is gone ends the loop with its exception
ProcessFile(st, filePath) ==
    IF st.crashed \/ SkipsFile(st, filePath) THEN st
    ELSE IF filePath \notin DOMAIN st.disk THEN [st EXCEPT !.crashed = TRUE]
    ELSE LET content == st.disk[filePath].content
             diagnostics == Diagnose(kinds[kindIdx], content, config)
             fixed == applyFixes(content, diagnostics)
             fixing == Len(diagnostics) > 0 /\ config.fix
             written == IF fixing THEN WriteFile(st.disk, filePath, fixed)
                        ELSE st.disk
         IN  [disk |-> written,
              cache |-> IF fixing THEN markClean(st.cache, written, filePath)
                        ELSE st.cache,
              filesWithIssues |-> IF Len(diagnostics) > 0
                                  THEN st.filesWithIssues \cup {filePath}
                                  ELSE st.filesWithIssues,
              totalDiagnostics |-> st.totalDiagnostics + Len(diagnostics),
              passLog |-> Append(st.passLog,
                                 LogEntry(filePath, content, diagnostics, written)),
              crashed |-> FALSE]

\* run, lines 273-300: the files of one pass, in order
RECURSIVE PassLoop(_, _)
PassLoop(st, i) ==
    IF i > Len(filesToProcess) THEN st
    ELSE PassLoop(ProcessFile(st, filesToProcess[i]), i + 1)

\* run, lines 269-328: one pass over the files and its report; the
\* exception of a read ends the process with exit code 1, its message on
\* stderr, and what the pass wrote before it stays written
RunPass ==
    /\ pc = "pass"
    /\ LET st == PassLoop(LoopState, 1)
       IN  /\ disk' = st.disk
           /\ cache' = st.cache
           /\ filesWithIssues' = st.filesWithIssues
           /\ totalDiagnostics' = st.totalDiagnostics
           /\ passLog' = st.passLog
           /\ hasIssues' = (hasIssues \/ st.totalDiagnostics > 0)
           /\ ioDone' = ioDone
                  \cup (IF st.crashed \/ Len(st.passLog) > Len(passLog)
                        THEN {"read"} ELSE {})
                  \cup (IF st.disk # disk THEN {"write"} ELSE {})
           /\ IF st.crashed
              THEN /\ pc' = "crashed"
                   /\ exitCode' = 1
                   /\ stderr' = Append(stderr, "ENOENT: no such file or directory")
                   /\ kindIdx' = kindIdx
              ELSE /\ exitCode' = exitCode
                   /\ stderr' = stderr
                   /\ IF kindIdx < Len(kinds)
                      THEN kindIdx' = kindIdx + 1 /\ pc' = "pass"
                      ELSE kindIdx' = kindIdx /\ pc' = "finish"
    /\ UNCHANGED <<kinds, config, previouslyCachedFiles, repeats, snapshotWrites,
                   snapshot, cfgStrategy, cfgCache, fxVars, unitVars, rcVars,
                   dfVars, scVars>>

\* MarkCleanFrom with the test on filesWithIssues inverted
RECURSIVE MarkCleanFromFilesWithIssues(_, _, _)
MarkCleanFromFilesWithIssues(c, fs, i) ==
    IF i > Len(filesToProcess) THEN c
    ELSE LET filePath == filesToProcess[i]
         IN  MarkCleanFromFilesWithIssues(
                 IF filePath \in filesWithIssues /\ filePath \notin previouslyCachedFiles
                 THEN markClean(c, fs, filePath)
                 ELSE c,
                 fs, i + 1)

\* run, lines 331-338: mark clean every file without issues that was no hit
RECURSIVE MarkCleanFrom(_, _, _)
MarkCleanFrom(c, fs, i) ==
    IF i > Len(filesToProcess) THEN c
    ELSE LET filePath == filesToProcess[i]
         IN  MarkCleanFrom(
                 IF filePath \notin filesWithIssues /\ filePath \notin previouslyCachedFiles
                 THEN markClean(c, fs, filePath)
                 ELSE c,
                 fs, i + 1)

\* run, lines 330-345: stamp, persist the cache and exit
FinishRun ==
    /\ pc = "finish"
    /\ cache' = MarkCleanFrom(cache, disk, 1)
    /\ snapshot' = write(cache', snapshot)
    /\ ioDone' = ioDone \cup (IF cache.kind = "fs" THEN {"writeSnapshot"} ELSE {})
    /\ snapshotWrites' = snapshotWrites + (IF cache.kind = "fs" THEN 1 ELSE 0)
    /\ exitCode' = ExitCodeOf(config, hasIssues)
    /\ pc' = "done"
    /\ UNCHANGED <<kinds, config, previouslyCachedFiles, filesWithIssues, hasIssues,
                   kindIdx, totalDiagnostics, passLog, stderr, repeats,
                   disk, cfgStrategy, cfgCache, fxVars, unitVars, rcVars,
                   dfVars, scVars>>

Next ==
    \/ \E cmd \in {"format", "lint", "check"}, fix \in BOOLEAN,
          cacheFlag \in {"none", "--cache", "--no-cache"} :
          StartRun(cmd, fix, cacheFlag)
    \/ \E fix \in BOOLEAN, cacheFlag \in {"none", "--cache"} :
          LoadFails("check", fix, cacheFlag)
    \/ \E fix \in BOOLEAN, cacheFlag \in {"none", "--cache"} :
          NoFilesRun("check", fix, cacheFlag)
    \/ RunPass
    \/ FinishRun

Spec == Init /\ [][Next]_vars

(***************************************************************************)
(* SpecVanish: the runs of Spec in a project whose template files can be   *)
(* deleted by another process while a run is between discovery and its    *)
(* end.                                                                    *)
(***************************************************************************)
\* a template file is deleted after the run discovered it
VanishFile(path) ==
    /\ pc \in {"pass", "finish"}
    /\ path \in DOMAIN disk
    /\ disk' = [f \in DOMAIN disk \ {path} |-> disk[f]]
    /\ UNCHANGED <<snapshot, cfgStrategy, cfgCache, runVars, fxVars, unitVars,
                   obsVars, rcVars,
                   dfVars, scVars>>

VanishNext ==
    \/ Next
    \/ \E path \in Files : VanishFile(path)

SpecVanish == Init /\ [][VanishNext]_vars

(***************************************************************************)
(* SpecConfig: one call of resolveConfig on every bounded input, and the   *)
(* configuration of one command run with its lint pass.                    *)
(***************************************************************************)
OptBool == {<<>>, <<TRUE>>, <<FALSE>>}

\* the cliArgs of a direct call
CliArgSets ==
    [css : {<<>>, <<"app.css">>}, rem : {<<>>, <<"20">>}, collapse : OptBool,
     strategy : {<<>>, <<"tailwind">>}, fix : OptBool, json : {<<>>, <<TRUE>>},
     quiet : {<<>>, <<TRUE>>}, verbose : {<<>>, <<FALSE>>}, cache : OptBool]

\* null, and the config files with some of their options set
ConfigFiles ==
    {NoConfigFile} \cup
    [present : {TRUE}, css : {<<>>, <<"site.css">>}, rem : {<<>>, <<8>>},
     collapse : {<<>>, <<TRUE>>}, strategy : {<<>>, <<"alphabetical">>},
     cache : {<<>>, <<TRUE>>}]

\* the flags of a command run
RunFlags == {"--fix", "--cache", "--no-cache", "--collapse"}

OtherCssContent == "@import 'tailwindcss'; @theme { --spacing: 1px }"

\* no template is processed and no cache manager is called
ProcessOff ==
    /\ lastCall = NoCall
    /\ disk = <<>>
    /\ snapshot = NoSnapshot
    /\ cfgStrategy = "tailwind"
    /\ cfgCache = FALSE
    /\ pc = "off"
    /\ kinds = <<>>
    /\ config = <<>>
    /\ cache = NoopCache
    /\ previouslyCachedFiles = {}
    /\ filesWithIssues = {}
    /\ hasIssues = FALSE
    /\ kindIdx = 0
    /\ totalDiagnostics = 0
    /\ exitCode = 0
    /\ passLog = <<>>

ConfigInit ==
    /\ FixIdle
    /\ ObsIdle
    /\ TextIdle
    /\ ProcessOff
    /\ rcCmd = "none"
    /\ rcRaw = {}
    /\ rcCli = <<>>
    /\ rcFile = <<>>
    /\ rcCss = ""
    /\ rcConfig = <<>>
    /\ rcOptions = <<>>
    /\ rcPc = "call"

ConfigUnchanged ==
    UNCHANGED <<fxVars, envVars, runVars, unitVars, obsVars, dfVars, scVars>>

\* resolveConfig(cliArgs, configFile, rawArgs)
ResolveConfigCall(cliArgs, configFile, rawArgs) ==
    /\ rcPc = "call"
    /\ rcCli' = cliArgs
    /\ rcFile' = configFile
    /\ rcRaw' = rawArgs
    /\ rcConfig' = resolveConfig(cliArgs, configFile, rawArgs)
    /\ rcPc' = "resolved"
    /\ UNCHANGED <<rcCmd, rcCss, rcOptions>>
    /\ ConfigUnchanged

\* a command with flags: the args of its declaration go to run, which
\* resolves the configuration (run, lines 222-224)
CommandRun(cmd, rawArgs, configFile, cssContent) ==
    /\ rcPc = "call"
    /\ rcCmd' = cmd
    /\ rcRaw' = rawArgs
    /\ rcCli' = ParseArgs(cmd, rawArgs)
    /\ rcFile' = configFile
    /\ rcCss' = cssContent
    /\ rcConfig' = resolveConfig(ParseArgs(cmd, rawArgs), configFile, rawArgs)
    /\ rcPc' = "run"
    /\ UNCHANGED rcOptions
    /\ ConfigUnchanged

\* the lint pass of the run invokes the classifier (run, lines 285-288)
LintPass ==
    /\ rcPc = "run"
    /\ \E i \in 1..Len(KindsOf(rcCmd)) : KindsOf(rcCmd)[i] = "lint"
    /\ rcOptions' = canonicalizeOptions(lintOptions(rcConfig))
    /\ rcPc' = "linted"
    /\ UNCHANGED <<rcCmd, rcRaw, rcCli, rcFile, rcCss, rcConfig>>
    /\ ConfigUnchanged

ConfigNext ==
    \/ /\ rcPc = "call"
       /\ \E cliArgs \in CliArgSets, configFile \in ConfigFiles,
             rawArgs \in {{}, {"--no-cache"}} :
             ResolveConfigCall(cliArgs, configFile, rawArgs)
    \/ /\ rcPc = "call"
       /\ \E cmd \in {"format", "lint", "check"}, rawArgs \in SUBSET RunFlags,
             configFile \in ConfigFiles, cssContent \in {CssContent, OtherCssContent} :
             CommandRun(cmd, rawArgs, configFile, cssContent)
    \/ LintPass

SpecConfig == ConfigInit /\ [][ConfigNext]_vars

(***************************************************************************)
(* SpecFiles: one call of isTemplateFile on every bounded base name.  A    *)
(* base name is a sequence of name atoms; the atom "." is the dot, every  *)
(* other atom a word without a dot.                                        *)
(***************************************************************************)
NameAtoms == {"test", "blade", "php", "tsx", "css", "html", "."}

\* EXTENSIONS (cli.ts 15-42): the members the atoms spell
EXTENSIONS == {<<"html">>, <<"tsx">>, <<"php">>, <<"blade", ".", "php">>}

\* the names of directory entries: not empty, not "." and not ".."
FileNames ==
    SeqsUpTo(NameAtoms, MaxNameLen) \ {<<>>, <<".">>, <<".", ".">>}

\* base.split("."), from atom i on, with the part collected so far
RECURSIVE SplitFrom(_, _, _)
SplitFrom(base, i, part) ==
    IF i > Len(base) THEN <<part>>
    ELSE IF base[i] = "." THEN <<part>> \o SplitFrom(base, i + 1, <<>>)
    ELSE SplitFrom(base, i + 1, Append(part, base[i]))

split(base) == SplitFrom(base, 1, <<>>)

\* String.prototype.endsWith
endsWith(str, suffix) ==
    /\ Len(str) >= Len(suffix)
    /\ SubSeq(str, Len(str) - Len(suffix) + 1, Len(str)) = suffix

\* getExtension: the last two parts joined by a dot when the name has more
\* than two parts, else the last part, or "html" when that is empty
getExtension(filePath) ==
    LET parts == split(filePath)
        n == Len(parts)
    IN  IF n > 2 THEN parts[n - 1] \o <<".">> \o parts[n]
        ELSE IF parts[n] # <<>> THEN parts[n]
        ELSE <<"html">>

isTemplateFile(filePath) ==
    IF endsWith(filePath, <<".", "css">>) THEN FALSE
    ELSE getExtension(filePath) \in EXTENSIONS

\* neither resolveConfig nor a command is called
ConfigOff ==
    /\ rcCmd = "none"
    /\ rcRaw = {}
    /\ rcCli = <<>>
    /\ rcFile = <<>>
    /\ rcCss = ""
    /\ rcConfig = <<>>
    /\ rcOptions = <<>>
    /\ rcPc = "off"

FilesInit ==
    /\ FixIdle
    /\ ObsIdle
    /\ ProcessOff
    /\ ConfigOff
    /\ ScanIdle
    /\ dfName \in FileNames
    /\ dfResult = FALSE
    /\ dfPc = "call"

\* isTemplateFile(filePath)
IsTemplateFileCall ==
    /\ dfPc = "call"
    /\ dfResult' = isTemplateFile(dfName)
    /\ dfPc' = "done"
    /\ UNCHANGED <<dfName, fxVars, envVars, runVars, unitVars, obsVars, rcVars,
                   scVars>>

FilesNext == IsTemplateFileCall

SpecFiles == FilesInit /\ [][FilesNext]_vars

(***************************************************************************)
(* SpecScan: the two passes and offsetToLineColumn on text.  A text is a   *)
(* sequence of characters and every offset is a 0-based character offset,  *)
(* as in the source.                                                       *)
(***************************************************************************)
DQ == "\""

SQ == "'"

NL == "\n"

\* the characters \s of CLASS_ATTR_RE and of split(/\s+/) match in the texts
Whitespace == {" ", NL}

\* the literal parts of CLASS_ATTR_RE
ClassWord == <<"c", "l", "a", "s", "s">>

NameWord == <<"N", "a", "m", "e">>

\* the characters of a class name
TokenChars(t) ==
    CASE t = "h-0" -> <<"h", "-", "0">>
      [] t = "h-18" -> <<"h", "-", "1", "8">>
      [] t = "h-[72px]" -> <<"h", "-", "[", "7", "2", "p", "x", "]">>
      [] OTHER -> <<"x">>

\* the class name a run of characters spells; "?" for a run that spells none
TokenOf(cls) ==
    IF \E t \in Tokens : TokenChars(t) = cls
    THEN CHOOSE t \in Tokens : TokenChars(t) = cls
    ELSE "?"

\* str.startsWith(lit, i)
StartsWithAt(str, lit, i) ==
    /\ i + Len(lit) <= Len(str)
    /\ Slice(str, i, i + Len(lit)) = lit

\* \s* from offset i: the offset of the first character that is no whitespace
RECURSIVE SkipWhitespace(_, _)
SkipWhitespace(str, i) ==
    IF i < Len(str) /\ str[i + 1] \in Whitespace
    THEN SkipWhitespace(str, i + 1)
    ELSE i

\* String.prototype.indexOf(ch, from): -1 when ch does not occur
RECURSIVE indexOf(_, _, _)
indexOf(str, ch, from) ==
    IF from >= Len(str) THEN -1
    ELSE IF str[from + 1] = ch THEN from
    ELSE indexOf(str, ch, from + 1)

NoMatch == [found |-> FALSE, index |-> 0, end |-> 0, quote |-> "", value |-> <<>>]

\* \s*=\s*(?:"([^"]*)"|'([^']*)') tried at offset j of a match that began at
\* index: the value runs to the first quote of the opening kind
MatchRest(str, index, j) ==
    LET eq == SkipWhitespace(str, j)
    IN  IF ~(eq < Len(str) /\ str[eq + 1] = "=") THEN NoMatch
        ELSE LET q == SkipWhitespace(str, eq + 1)
             IN  IF ~(q < Len(str) /\ str[q + 1] \in {DQ, SQ}) THEN NoMatch
                 ELSE LET close == indexOf(str, str[q + 1], q + 1)
                      IN  IF close < 0 THEN NoMatch
                          ELSE [found |-> TRUE, index |-> index,
                                end |-> close + 1, quote |-> str[q + 1],
                                value |-> Slice(str, q + 1, close)]

\* CLASS_ATTR_RE tried at offset index: (?:Name)? is taken first and given up
\* when the rest does not match with it
MatchAt(str, index) ==
    IF ~StartsWithAt(str, ClassWord, index) THEN NoMatch
    ELSE LET withName ==
                 IF StartsWithAt(str, NameWord, index + 5)
                 THEN MatchRest(str, index, index + 9)
                 ELSE NoMatch
         IN  IF withName.found THEN withName
             ELSE MatchRest(str, index, index + 5)

\* CLASS_ATTR_RE.exec(content) with the given lastIndex: the leftmost match
\* at or after lastIndex
RECURSIVE exec(_, _)
exec(str, lastIndex) ==
    IF lastIndex > Len(str) THEN NoMatch
    ELSE IF MatchAt(str, lastIndex).found THEN MatchAt(str, lastIndex)
    ELSE exec(str, lastIndex + 1)

\* a search that resumes one character after the start of the match
lastIndexInsideMatch(m) == m.index + 1

\* the g flag: lastIndex after a match is the end of the match
lastIndexAfter(m) == m.end

\* the matches of the while loop, each with the lastIndex its search began at
RECURSIVE MatchesFrom(_, _)
MatchesFrom(str, lastIndex) ==
    LET m == exec(str, lastIndex)
    IN  IF ~m.found THEN <<>>
        ELSE <<[from |-> lastIndex, index |-> m.index, end |-> m.end,
                quote |-> m.quote, value |-> m.value]>>
             \o MatchesFrom(str, lastIndexAfter(m))

\* classValue.split(/\s+/).filter(Boolean), from index i with the class
\* name gathered so far
RECURSIVE SplitClasses(_, _, _)
SplitClasses(value, i, word) ==
    LET ended == IF word = <<>> THEN <<>> ELSE <<word>>
    IN  IF i > Len(value) THEN ended
        ELSE IF value[i] \in Whitespace
        THEN ended \o SplitClasses(value, i + 1, <<>>)
        ELSE SplitClasses(value, i + 1, Append(word, value[i]))

\* classes.join(' ')
RECURSIVE join(_)
join(classes) ==
    IF classes = <<>> THEN <<>>
    ELSE IF Len(classes) = 1 THEN classes[1]
    ELSE classes[1] \o <<" ">> \o join(Tail(classes))

\* the primary collation weight of a character: punctuation, then digits,
\* then letters
CharRank(ch) ==
    CASE ch = "-" -> 1   [] ch = SQ -> 2    [] ch = DQ -> 3
      [] ch = "[" -> 4   [] ch = "]" -> 5   [] ch = "=" -> 6
      [] ch = "0" -> 10  [] ch = "1" -> 11  [] ch = "2" -> 12
      [] ch = "7" -> 17  [] ch = "8" -> 18
      [] ch = "a" -> 20  [] ch = "c" -> 22  [] ch = "e" -> 24
      [] ch = "h" -> 27  [] ch = "l" -> 31  [] ch = "m" -> 32
      [] ch = "N" -> 33  [] ch = "p" -> 35  [] ch = "s" -> 38
      [] ch = "x" -> 43
      [] OTHER -> 0

\* a.localeCompare(b): negative, zero or positive
RECURSIVE localeCompare(_, _)
localeCompare(a, b) ==
    IF a = <<>> THEN (IF b = <<>> THEN 0 ELSE -1)
    ELSE IF b = <<>> THEN 1
    ELSE IF CharRank(Head(a)) # CharRank(Head(b))
    THEN CharRank(Head(a)) - CharRank(Head(b))
    ELSE localeCompare(Tail(a), Tail(b))

\* the stable sort of line 85: a class goes after every class that does not
\* compare greater than it
RECURSIVE InsertByLocale(_, _)
InsertByLocale(sorted, x) ==
    IF sorted = <<>> THEN <<x>>
    ELSE IF localeCompare(Head(sorted), x) > 0 THEN <<x>> \o sorted
    ELSE <<Head(sorted)>> \o InsertByLocale(Tail(sorted), x)

RECURSIVE sortAlphabeticalText(_)
sortAlphabeticalText(classes) ==
    IF classes = <<>> THEN <<>>
    ELSE InsertByLocale(
             sortAlphabeticalText(SubSeq(classes, 1, Len(classes) - 1)),
             classes[Len(classes)])

\* the stable sort of lines 102-106 on the known classes
RECURSIVE InsertByOrder(_, _)
InsertByOrder(sorted, x) ==
    IF sorted = <<>> THEN <<x>>
    ELSE IF ClassOrder(TokenOf(Head(sorted))) > ClassOrder(TokenOf(x))
    THEN <<x>> \o sorted
    ELSE <<Head(sorted)>> \o InsertByOrder(Tail(sorted), x)

RECURSIVE SortByOrder(_)
SortByOrder(classes) ==
    IF classes = <<>> THEN <<>>
    ELSE InsertByOrder(SortByOrder(SubSeq(classes, 1, Len(classes) - 1)),
                       classes[Len(classes)])

sortTailwindText(classes) ==
    LET unknown == SelectSeq(classes, LAMBDA c : ClassOrder(TokenOf(c)) < 0)
        known == SelectSeq(classes, LAMBDA c : ClassOrder(TokenOf(c)) >= 0)
    IN  unknown \o SortByOrder(known)

\* offsetToLineColumn whose column keeps counting across a newline
RECURSIVE LineColumnNoReset(_, _, _, _)
LineColumnNoReset(content, offset, i, at) ==
    IF ~(i < offset /\ i < Len(content)) THEN at
    ELSE IF content[i + 1] = NL
    THEN LineColumnNoReset(content, offset, i + 1,
                           [line |-> at.line + 1, column |-> at.column + 1])
    ELSE LineColumnNoReset(content, offset, i + 1,
                           [line |-> at.line, column |-> at.column + 1])

offsetToLineColumnNoReset(content, offset) ==
    LineColumnNoReset(content, offset, 0, [line |-> 1, column |-> 1])

\* the loop of offsetToLineColumn from index i
RECURSIVE LineColumnFrom(_, _, _, _)
LineColumnFrom(content, offset, i, at) ==
    IF ~(i < offset /\ i < Len(content)) THEN at
    ELSE IF content[i + 1] = NL
    THEN LineColumnFrom(content, offset, i + 1,
                        [line |-> at.line + 1, column |-> 1])
    ELSE LineColumnFrom(content, offset, i + 1,
                        [line |-> at.line, column |-> at.column + 1])

\* sorter.ts: offsetToLineColumn
offsetToLineColumn(content, offset) ==
    LineColumnFrom(content, offset, 0, [line |-> 1, column |-> 1])

\* canonicalize.ts: its own copy of the loop and of offsetToLineColumn
RECURSIVE canonicalizeLineColumnFrom(_, _, _, _)
canonicalizeLineColumnFrom(content, offset, i, at) ==
    IF ~(i < offset /\ i < Len(content)) THEN at
    ELSE IF content[i + 1] = NL
    THEN canonicalizeLineColumnFrom(content, offset, i + 1,
                                    [line |-> at.line + 1, column |-> 1])
    ELSE canonicalizeLineColumnFrom(content, offset, i + 1,
                                    [line |-> at.line, column |-> at.column + 1])

canonicalizeOffsetToLineColumn(content, offset) ==
    canonicalizeLineColumnFrom(content, offset, 0, [line |-> 1, column |-> 1])

\* an offset anchored at the start of the whole attribute
valueOffsetAtAttribute(m, matchText) == m.index

\* line 55: match.index + match[0].indexOf(quoteChar) + 1
valueOffset(m, matchText) == m.index + indexOf(matchText, m.quote, 0) + 1

\* a pass that reports every attribute of two or more classes
differsAlways(sortedValue, originalValue) == TRUE

\* line 66: sortedValue !== originalValue
differs(sortedValue, originalValue) == sortedValue # originalValue

\* the body of the while loop of findUnsortedClasses for one match: the
\* diagnostics it pushes
UnsortedAt(content, strategy, m) ==
    LET classValue == m.value
        offset == valueOffset(m, Slice(content, m.index, m.end))
        classes == SplitClasses(classValue, 1, <<>>)
        sorted == IF strategy = "alphabetical"
                  THEN sortAlphabeticalText(classes)
                  ELSE sortTailwindText(classes)
        sortedValue == join(sorted)
        originalValue == join(classes)
        at == offsetToLineColumn(content, offset)
    IN  IF classValue = <<>> THEN <<>>
        ELSE IF Len(classes) <= 1 THEN <<>>
        ELSE IF ~differs(sortedValue, originalValue) THEN <<>>
        ELSE <<[line |-> at.line, column |-> at.column, offset |-> offset,
                length |-> Len(classValue), original |-> classValue,
                canonical |-> sortedValue]>>

RECURSIVE UnsortedOver(_, _, _)
UnsortedOver(content, strategy, matches) ==
    IF matches = <<>> THEN <<>>
    ELSE UnsortedAt(content, strategy, Head(matches))
         \o UnsortedOver(content, strategy, Tail(matches))

\* findUnsortedClasses on text: lastIndex is reset to 0 before the loop
findUnsortedClassesText(content, strategy) ==
    UnsortedOver(content, strategy, MatchesFrom(content, 0))

\* the characters that end a candidate
Delimiters == Whitespace \cup {DQ, SQ, "="}

\* Scanner.getCandidatesWithPositions of @tailwindcss/oxide: every maximal
\* run of characters that holds no delimiter, with the offset it starts at;
\* from index i with the run gathered so far and its start
RECURSIVE CandidatesFrom(_, _, _, _)
CandidatesFrom(content, i, start, word) ==
    LET ended == IF word = <<>> THEN <<>>
                 ELSE <<[rawCandidate |-> word, start |-> start]>>
    IN  IF i > Len(content) THEN ended
        ELSE IF content[i] \in Delimiters
        THEN ended \o CandidatesFrom(content, i + 1, i, <<>>)
        ELSE CandidatesFrom(content, i + 1, start, Append(word, content[i]))

extractCandidatesWithPositions(content) == CandidatesFrom(content, 1, 0, <<>>)

\* designSystem.canonicalizeCandidates([rawCandidate])[0] on characters: a
\* run that spells no class comes back as it is
canonicalizeCandidates(rawCandidate) ==
    IF TokenOf(rawCandidate) = "?" THEN rawCandidate
    ELSE TokenChars(Canon(TokenOf(rawCandidate)))

\* the body of the for loop of findNonCanonicalClasses for one candidate
NonCanonicalAt(content, candidate) ==
    LET rawCandidate == candidate.rawCandidate
        start == candidate.start
        canonical == canonicalizeCandidates(rawCandidate)
        at == canonicalizeOffsetToLineColumn(content, start)
    IN  IF canonical # <<>> /\ canonical # rawCandidate
        THEN <<[line |-> at.line, column |-> at.column, offset |-> start,
                length |-> Len(rawCandidate), original |-> rawCandidate,
                canonical |-> canonical]>>
        ELSE <<>>

RECURSIVE NonCanonicalOver(_, _)
NonCanonicalOver(content, candidates) ==
    IF candidates = <<>> THEN <<>>
    ELSE NonCanonicalAt(content, Head(candidates))
         \o NonCanonicalOver(content, Tail(candidates))

\* findNonCanonicalClasses on text
findNonCanonicalClassesText(content) ==
    NonCanonicalOver(content, extractCandidatesWithPositions(content))

\* the class names of a value joined by a separator
RECURSIVE JoinWith(_, _)
JoinWith(toks, sep) ==
    IF toks = <<>> THEN <<>>
    ELSE IF Len(toks) = 1 THEN TokenChars(toks[1])
    ELSE TokenChars(toks[1]) \o sep \o JoinWith(Tail(toks), sep)

Separators == {<<" ">>, <<NL>>}

\* a value with leading whitespace, one with a run of whitespace, one with a
\* class the design system does not know, and one that holds an attribute
SpecialValues ==
    { <<" ">> \o JoinWith(<<"h-18", "h-0">>, <<" ">>),
      JoinWith(<<"h-0", "h-18">>, <<" ", " ">>),
      <<"x", " ">> \o TokenChars("h-0"),
      TokenChars("h-18") \o <<" ">> \o ClassWord \o <<"=", SQ>>
          \o JoinWith(<<"h-18", "h-0">>, <<" ">>) \o <<SQ>> }

ClassValues ==
    {JoinWith(toks, sep) : toks \in SeqsUpTo(Tokens, MaxTokens),
                           sep \in Separators}
    \cup SpecialValues

AttrNames == {ClassWord, ClassWord \o NameWord}

EqForms == {<<"=">>, <<" ", "=", " ">>}

Quotes == {DQ, SQ}

Attribute(name, eq, quote, value) == name \o eq \o <<quote>> \o value \o <<quote>>

Attributes ==
    {Attribute(name, eq, quote, value) :
        name \in AttrNames, eq \in EqForms, quote \in Quotes,
        value \in ClassValues}

\* what precedes the first attribute: nothing, or a line of its own
Prefixes == {<<>>, <<"x", NL>>}

\* what follows it: nothing, a second attribute on the next line, or an
\* attribute whose quote is never closed
Suffixes ==
    { <<>>,
      <<NL>> \o Attribute(ClassWord, <<"=">>, SQ,
                          JoinWith(<<"h-18", "h-0">>, <<" ">>)),
      <<" ">> \o ClassWord \o <<"=", DQ>>
             \o JoinWith(<<"h-18", "h-0">>, <<" ">>) }

ScanTexts == {p \o a \o s : p \in Prefixes, a \in Attributes, s \in Suffixes}

ScanInit ==
    /\ FixIdle
    /\ ObsIdle
    /\ ProcessOff
    /\ ConfigOff
    /\ FilesIdle
    /\ scText \in ScanTexts
    /\ scStrategy \in {"tailwind", "alphabetical"}
    /\ scSorted = <<>>
    /\ scLint = <<>>
    /\ scSearches = <<>>
    /\ scOffset = 0
    /\ scPos = <<>>
    /\ scPc = "call"

ScanUnchanged ==
    UNCHANGED <<fxVars, envVars, runVars, unitVars, obsVars, rcVars, dfVars>>

\* findUnsortedClasses(designSystem, content, filePath, { strategy })
FindUnsortedCall ==
    /\ scPc = "call"
    /\ scSorted' = findUnsortedClassesText(scText, scStrategy)
    /\ scSearches' = [k \in DOMAIN MatchesFrom(scText, 0) |->
                        [from |-> MatchesFrom(scText, 0)[k].from,
                         index |-> MatchesFrom(scText, 0)[k].index,
                         end |-> MatchesFrom(scText, 0)[k].end]]
    /\ scPc' = "sorted"
    /\ UNCHANGED <<scText, scStrategy, scLint, scOffset, scPos>>
    /\ ScanUnchanged

\* findNonCanonicalClasses(designSystem, content, extension, filePath)
FindNonCanonicalCall ==
    /\ scPc = "sorted"
    /\ scLint' = findNonCanonicalClassesText(scText)
    /\ scPc' = "linted"
    /\ UNCHANGED <<scText, scStrategy, scSorted, scSearches, scOffset, scPos>>
    /\ ScanUnchanged

\* offsetToLineColumn(content, offset), by the copy of each pass
OffsetToLineColumnCall(offset) ==
    /\ scPc = "linted"
    /\ scOffset' = offset
    /\ scPos' = <<[sorter |-> offsetToLineColumn(scText, offset),
                   canonicalize |->
                       canonicalizeOffsetToLineColumn(scText, offset)]>>
    /\ scPc' = "done"
    /\ UNCHANGED <<scText, scStrategy, scSorted, scLint, scSearches>>
    /\ ScanUnchanged

ScanNext ==
    \/ FindUnsortedCall
    \/ FindNonCanonicalCall
    \/ \E offset \in 0..Len(scText) : OffsetToLineColumnCall(offset)

SpecScan == ScanInit /\ [][ScanNext]_vars

(***************************************************************************)
(* SpecCache: the calls of one cache manager after another, new managers   *)
(* created from the snapshot on disk, and the files changing in between.   *)
(***************************************************************************)
OtherVersion == "0.0.4"

\* the options hashConfig reads, for a strategy
ScopeConfig(strategy) ==
    [css |-> "undefined", rem |-> 16, collapse |-> FALSE, strategy |-> strategy,
     fix |-> FALSE]

\* the (version, configHash) pairs caches are created with
Scopes ==
    {<<Version, hashConfig(ScopeConfig("tailwind"), CssContent)>>,
     <<OtherVersion, hashConfig(ScopeConfig("tailwind"), CssContent)>>,
     <<Version, hashConfig(ScopeConfig("alphabetical"), CssContent)>>}

ScopeOf(c) == <<c.version, c.configHash>>

\* the contents a.html takes under SpecCache, of pairwise different sizes
UnitContents == {<<>>, <<"h-0">>, <<"h-18">>}

\* the files on disk at the start: a.html with any content, b.html empty
UnitDisks ==
    {[f \in Files |-> [content |-> IF f = "a.html" THEN c ELSE <<>>, mtimeMs |-> 1]] :
        c \in UnitContents}

\* what cache.json is before the first cache is created
InitialSnapshots ==
    {NoSnapshot, UnreadableSnapshot, GarbageSnapshot}
        \cup {NoFilesSnapshot(s[1], s[2]) : s \in Scopes}

\* no run is in progress under SpecCache
RunOff ==
    /\ cfgStrategy = "tailwind"
    /\ cfgCache = TRUE
    /\ pc = "off"
    /\ kinds = <<>>
    /\ config = <<>>
    /\ previouslyCachedFiles = {}
    /\ filesWithIssues = {}
    /\ hasIssues = FALSE
    /\ kindIdx = 0
    /\ totalDiagnostics = 0
    /\ exitCode = 0
    /\ passLog = <<>>

UnitUnchanged ==
    UNCHANGED <<fxVars, cfgStrategy, cfgCache, pc, kinds, config,
                previouslyCachedFiles, filesWithIssues, hasIssues, kindIdx,
                totalDiagnostics, exitCode, passLog, obsVars, rcVars,
                   dfVars, scVars>>

CacheInit ==
    /\ FixIdle
    /\ ObsIdle
    /\ ConfigIdle
    /\ TextIdle
    /\ RunOff
    /\ disk \in UnitDisks
    /\ snapshot \in InitialSnapshots
    /\ \E s \in Scopes : cache = createCache(s[1], s[2], snapshot)
    /\ lastCall = [op |-> "createCache", path |-> "", threw |-> FALSE]

\* createCache({base, version, configHash})
CreateCacheCall(s) ==
    /\ cache' = createCache(s[1], s[2], snapshot)
    /\ lastCall' = [op |-> "createCache", path |-> "", threw |-> FALSE]
    /\ UNCHANGED <<disk, snapshot>>
    /\ UnitUnchanged

\* createNoopCache()
CreateNoopCacheCall ==
    /\ cache' = NoopCache
    /\ lastCall' = [op |-> "createNoopCache", path |-> "", threw |-> FALSE]
    /\ UNCHANGED <<disk, snapshot>>
    /\ UnitUnchanged

\* cache.isFileCached(path)
IsFileCachedCall(path) ==
    /\ lastCall' = [op |-> "isFileCached", path |-> path,
                    threw |-> isFileCachedThrows(cache)]
    /\ UNCHANGED <<cache, disk, snapshot>>
    /\ UnitUnchanged

\* cache.markClean(path)
MarkCleanCall(path) ==
    /\ cache' = markClean(cache, disk, path)
    /\ lastCall' = [op |-> "markClean", path |-> path, threw |-> FALSE]
    /\ UNCHANGED <<disk, snapshot>>
    /\ UnitUnchanged

\* cache.markDirty(path)
MarkDirtyCall(path) ==
    /\ cache' = markDirty(cache, path)
    /\ lastCall' = [op |-> "markDirty", path |-> path,
                    threw |-> markDirtyThrows(cache)]
    /\ UNCHANGED <<disk, snapshot>>
    /\ UnitUnchanged

\* cache.write(): mkdirSync and writeFileSync succeed ("ok"), fail before the
\* file is touched ("failed") or fail after it was truncated ("partial"); the
\* error is caught in each case
WriteCall(outcome) ==
    /\ snapshot' = IF cache.kind = "noop" \/ outcome = "failed" THEN snapshot
                   ELSE IF outcome = "partial" THEN GarbageSnapshot
                   ELSE write(cache, snapshot)
    /\ lastCall' = [op |-> IF outcome = "ok" THEN "write" ELSE "writeFailed",
                    path |-> "", threw |-> FALSE]
    /\ UNCHANGED <<cache, disk>>
    /\ UnitUnchanged

\* a.html is written from outside at a later time, with any content
ModifyFile(content) ==
    /\ "a.html" \in DOMAIN disk
    /\ disk["a.html"].mtimeMs < MaxMtime
    /\ disk' = WriteFile(disk, "a.html", content)
    /\ lastCall' = [op |-> "modify", path |-> "a.html", threw |-> FALSE]
    /\ UNCHANGED <<cache, snapshot>>
    /\ UnitUnchanged

\* a.html is written from outside within the granularity of the file time:
\* another content, the same mtime
RewriteSameTick(content) ==
    /\ "a.html" \in DOMAIN disk
    /\ content # disk["a.html"].content
    /\ disk' = [disk EXCEPT !["a.html"].content = content]
    /\ lastCall' = [op |-> "rewrite", path |-> "a.html", threw |-> FALSE]
    /\ UNCHANGED <<cache, snapshot>>
    /\ UnitUnchanged

\* a file is deleted
DeleteFile(path) ==
    /\ path \in DOMAIN disk
    /\ disk' = [p \in DOMAIN disk \ {path} |-> disk[p]]
    /\ lastCall' = [op |-> "delete", path |-> path, threw |-> FALSE]
    /\ UNCHANGED <<cache, snapshot>>
    /\ UnitUnchanged

CacheNext ==
    \/ \E s \in Scopes : CreateCacheCall(s)
    \/ CreateNoopCacheCall
    \/ \E path \in Files : IsFileCachedCall(path)
    \/ \E path \in Files : MarkCleanCall(path)
    \/ \E path \in Files : MarkDirtyCall(path)
    \/ \E outcome \in {"ok", "failed", "partial"} : WriteCall(outcome)
    \/ \E content \in UnitContents : ModifyFile(content)
    \/ \E content \in UnitContents : RewriteSameTick(content)
    \/ \E path \in Files : DeleteFile(path)

SpecCache == CacheInit /\ [][CacheNext]_vars

(***************************************************************************)
(* Properties of the run pipeline, checked under Spec.                     *)
(***************************************************************************)
InRun == pc \in {"pass", "finish", "done"}

\* the passes of the current run that are complete
PassesDone == IF pc = "pass" THEN kindIdx - 1 ELSE Len(kinds)

\* the passLog entries of a file in a pass (none or one)
LogOf(filePath, n) ==
    SelectSeq(passLog, LAMBDA e : e.file = filePath /\ e.pass = n)

Processed(filePath, n) == LogOf(filePath, n) # <<>>

\* a content yields no diagnostic under any pass of the current run
CleanForRun(content) ==
    \A i \in 1..Len(kinds) : Diagnose(kinds[i], content, config) = <<>>

\* the store's entry of a file, or a stat no file has
EntryOf(c, filePath) ==
    IF filePath \in DOMAIN c.files THEN c.files[filePath]
    ELSE [mtimeMs |-> 0, size |-> 0]

\* the cache manager the next run with the same configuration would create
NextRunCache == createCache(Version, hashConfig(config, CssContent), snapshot)

\* C5: at the start of a run with caching enabled, a file that is a cache hit
\* yields zero diagnostics under every pass of that run.
C5_NoStaleCacheHit ==
    (pc = "pass" /\ kindIdx = 1 /\ config.cache) =>
        \A f \in previouslyCachedFiles : CleanForRun(disk[f].content)

\* C6: a file for which some pass of a run produced a diagnostic is no cache
\* hit for the next run with the same scope, in check mode and in fix mode.
C6_IssueFilesStayDirty ==
    (pc = "done" /\ config.cache) =>
        \A f \in filesWithIssues : ~isFileCached(NextRunCache, disk, f)

\* C7: an entry is created or refreshed only for content that has no
\* outstanding issue: whenever a step of a run stamps a file, the content then
\* on disk yields no diagnostic under any pass of the run.
C7_StampOnlyCleanContent ==
    [][\A f \in Files :
          (/\ pc \in {"pass", "finish"}
           /\ f \in DOMAIN cache'.files
           /\ EntryOf(cache', f) # EntryOf(cache, f)) =>
              \A i \in 1..Len(kinds) :
                  Diagnose(kinds[i], disk'[f].content, config) = <<>>]_vars

\* C8: in fix mode pass N+1 reads, for every processed file, what pass N left:
\* applyFixes of all of pass N's diagnostics on the content pass N read when
\* there were any (and then not the content pass N read), that content
\* otherwise.
C8_NextPassReadsWrittenOutput ==
    (InRun /\ config.fix) =>
        \A i, j \in 1..Len(passLog) :
            (passLog[i].file = passLog[j].file /\ passLog[j].pass = passLog[i].pass + 1) =>
                IF Len(passLog[i].diagnostics) > 0
                THEN /\ passLog[j].read =
                          applyFixes(passLog[i].read, passLog[i].diagnostics)
                     /\ passLog[j].read # passLog[i].read
                ELSE passLog[j].read = passLog[i].read

\* C8 witness: check --fix has run both passes over a file that the first
\* pass fixed and the second pass fixed again
C8_Witness ==
    /\ pc = "done"
    /\ config.fix
    /\ \E f \in Files :
          /\ Processed(f, 1) /\ Processed(f, 2)
          /\ Len(LogOf(f, 1)[1].diagnostics) > 0
          /\ Len(LogOf(f, 2)[1].diagnostics) > 0

\* C9: after check with fix on a file that had an unsorted class attribute
\* and a non-canonical class, the sort pass and the canonicalize pass both
\* yield zero diagnostics on the final content.
C9_CheckFixLeavesCleanFile ==
    (pc = "done" /\ config.fix /\ kinds = <<"format", "lint">>) =>
        \A f \in Files :
            (/\ Processed(f, 1)
             /\ Diagnose("format", LogOf(f, 1)[1].read, config) # <<>>
             /\ Diagnose("lint", LogOf(f, 1)[1].read, config) # <<>>) =>
                /\ Diagnose("format", disk[f].content, config) = <<>>
                /\ Diagnose("lint", disk[f].content, config) = <<>>

\* C10: the skipped files are the cache hits taken before the first pass, the
\* same for every pass: a hit is processed by no pass and every other file by
\* every pass, also after an earlier pass stamped it clean.
C10_SkipSetFixedForRun ==
    InRun =>
        /\ (kindIdx = 1 /\ pc = "pass") =>
               previouslyCachedFiles = {f \in Files : isFileCached(cache, disk, f)}
        /\ \A f \in Files, n \in 1..PassesDone :
               Processed(f, n) <=> f \notin previouslyCachedFiles

\* C10 witness: a run of two passes is over in which one file was a hit and
\* the other was fixed and stamped clean by the first pass
C10_Witness ==
    /\ pc = "done"
    /\ Len(kinds) = 2
    /\ config.fix
    /\ previouslyCachedFiles # {}
    /\ \E f \in Files \ previouslyCachedFiles :
          /\ Processed(f, 1)
          /\ Len(LogOf(f, 1)[1].diagnostics) > 0
          /\ Processed(f, 2)

\* a file that no pass of the run found a diagnostic in
NoDiagnosticsIn(filePath) ==
    \A i \in 1..Len(passLog) :
        passLog[i].file = filePath => passLog[i].diagnostics = <<>>

\* C11: at the end of a run with caching enabled every file that was no cache
\* hit at the start and had zero diagnostics in all passes is stamped with its
\* current size and mtime, and the snapshot on disk holds the store.
C11_CleanFilesStampedAndPersisted ==
    (pc = "done" /\ config.cache) =>
        /\ \A f \in Files :
              (f \notin previouslyCachedFiles /\ NoDiagnosticsIn(f)) =>
                  /\ f \in DOMAIN cache.files
                  /\ cache.files[f] = StatOf(disk[f])
        /\ snapshot.state = "json"
        /\ snapshot.version = cache.version
        /\ snapshot.configHash = cache.configHash
        /\ snapshot.files = cache.files

\* C11 witness: a run with caching enabled is over in which one file had a
\* diagnostic and another, no hit at the start, had none
C11_Witness ==
    /\ pc = "done"
    /\ config.cache
    /\ \E f \in Files \ previouslyCachedFiles :
          /\ Processed(f, 1)
          /\ NoDiagnosticsIn(f)
          /\ f \in DOMAIN cache.files
    /\ \E g \in Files : ~NoDiagnosticsIn(g)

\* C20: over every step of a run with caching disabled the manager is the
\* no-op cache: no file is a hit, markClean, markDirty and write change
\* nothing and do not throw, every pass processes every file, also those the
\* snapshot on disk would give a hit for, and the snapshot stays as it is.
C20_NoopCacheWhenDisabled ==
    [][(pc' \in {"pass", "finish", "done"} /\ ~config'.cache) =>
          /\ cache' = NoopCache
          /\ snapshot' = snapshot
          /\ previouslyCachedFiles' = {}
          /\ ~isFileCachedThrows(cache') /\ ~markDirtyThrows(cache')
          /\ write(cache', snapshot') = snapshot'
          /\ \A f \in Files :
                /\ ~isFileCached(cache', disk', f)
                /\ markClean(cache', disk', f) = cache'
                /\ markDirty(cache', f) = cache'
                /\ \A n \in 1..(IF pc' = "pass" THEN kindIdx' - 1 ELSE Len(kinds')) :
                      \E i \in 1..Len(passLog') :
                          passLog'[i].file = f /\ passLog'[i].pass = n]_vars

\* C20 witness: a fix run with caching disabled is over that fixed a file,
\* with a snapshot on disk that holds a hit for a file the run processed
C20_Witness ==
    /\ pc = "done"
    /\ ~config.cache
    /\ config.fix
    /\ \E f \in Files : ~NoDiagnosticsIn(f)
    /\ \E f \in Files : isFileCached(NextRunCache, disk, f) /\ Processed(f, 1)

\* some pass of the run produced a diagnostic for some file
SomeDiagnostic == \E i \in 1..Len(passLog) : passLog[i].diagnostics # <<>>

\* C21: a run in which the classifier loaded and that reached its end exits
\* non-zero exactly when fix was not requested and some pass produced a
\* diagnostic for some file, so a fix run that found and fixed diagnostics
\* exits zero; a run that found no template file exits zero.
C21_ExitCode ==
    /\ pc = "done" => (exitCode # 0 <=> (~config.fix /\ SomeDiagnostic))
    /\ pc = "nofiles" => exitCode = 0

\* C21 witness: a report-only check is over whose format pass found nothing
\* and whose lint pass found a diagnostic
C21_Witness ==
    /\ pc = "done"
    /\ ~config.fix
    /\ kinds = <<"format", "lint">>
    /\ \A i \in 1..Len(passLog) :
          passLog[i].diagnostics # <<>> => passLog[i].kind = "lint"
    /\ SomeDiagnostic

\* C22: the step of a run whose classifier cannot be loaded reports one
\* error and exits non-zero, and the run has discovered, read and written no
\* template file and has neither read nor written the cache snapshot.
C22_LoadFailureBeforeAnyIO ==
    [][pc' = "failed" =>
          /\ exitCode' # 0
          /\ Len(stderr') = 1
          /\ ioDone' = {}
          /\ passLog' = <<>>
          /\ disk' = disk
          /\ snapshot' = snapshot]_vars

\* C22 witness: the classifier failed to load in a run with caching enabled
\* while a snapshot with an entry is on disk
C22_Witness ==
    /\ pc = "failed"
    /\ config.cache
    /\ snapshot.state = "json"
    /\ \E f \in Files : f \in DOMAIN snapshot.files

\* C23, as the specification states it: a discovered file that is deleted
\* before its read in some pass does not abort the run.
C23_VanishedFileDoesNotAbort == pc # "crashed"

\* C24, as the specification states it: a run that repeats the fix run that
\* ended before it, with the same command and configuration, finds no
\* diagnostic and leaves every file as it read it.
C24_SecondFixRunFindsNothing ==
    (repeats /\ pc \in {"pass", "finish", "done"}) =>
        \A i \in 1..Len(passLog) :
            /\ passLog[i].diagnostics = <<>>
            /\ passLog[i].left = passLog[i].read

\* C25: a step changes a template file exactly when it is a pass of a run in
\* fix mode and that pass produced a diagnostic for that file.
C25_WritesIffFixAndDiagnostics ==
    [][\A f \in Files :
          (disk'[f] # disk[f]) <=>
              /\ pc = "pass"
              /\ config.fix
              /\ \E i \in (Len(passLog) + 1)..Len(passLog') :
                    passLog'[i].file = f /\ passLog'[i].diagnostics # <<>>]_vars

\* C25 witness: a fix run is over in which a pass found a diagnostic in a
\* file and a pass found none in a file
C25_Witness ==
    /\ pc = "done"
    /\ config.fix
    /\ \E i, j \in 1..Len(passLog) :
          /\ passLog[i].diagnostics # <<>>
          /\ passLog[i].left # passLog[i].read
          /\ passLog[j].diagnostics = <<>>

\* C29: a sort pass over a class attribute of zero or one class hands no
\* class list to the sort and produces no diagnostic.
C29_FewClassesNeverSorted ==
    \A i \in 1..Len(passLog) :
        (passLog[i].kind = "format" /\ Len(passLog[i].read) <= 1) =>
            /\ passLog[i].ordered = <<>>
            /\ passLog[i].diagnostics = <<>>

\* C29 witness: a sort pass has processed an attribute of one class, and an
\* attribute of two classes that went to the sort
C29_Witness ==
    \E i, k \in 1..Len(passLog) :
        /\ passLog[i].kind = "format" /\ Len(passLog[i].read) = 1
        /\ passLog[k].kind = "format" /\ passLog[k].ordered # <<>>

C37_StampTakenAfterWrite ==
    (InRun /\ config.fix /\ config.cache) =>
        \A f \in Files \ previouslyCachedFiles :
            (pc = "done" \/ ~NoDiagnosticsIn(f)) =>
                /\ f \in DOMAIN cache.files
                /\ cache.files[f] = StatOf(disk[f])

\* C37 witness: a check --fix run with caching is over in which the format
\* pass and the lint pass each wrote a fix to the same file
C37_Witness ==
    /\ pc = "done"
    /\ config.fix
    /\ config.cache
    /\ \E i, j \in 1..Len(passLog) :
          /\ i < j
          /\ passLog[i].file = passLog[j].file
          /\ passLog[i].diagnostics # <<>>
          /\ passLog[j].diagnostics # <<>>

\* C38: over every step of a run after its start, a file that was a cache hit
\* at the start keeps its content and mtime and its store entry, is in no log
\* entry and not among the files with issues, and at the end the snapshot
\* holds its entry as it was.
C38_HitsAreLeftAlone ==
    [][(pc = "pass" \/ pc = "finish") =>
          \A f \in previouslyCachedFiles :
              /\ disk'[f] = disk[f]
              /\ f \in DOMAIN cache'.files
              /\ cache'.files[f] = cache.files[f]
              /\ f \notin filesWithIssues'
              /\ \A i \in 1..Len(passLog') : passLog'[i].file # f
              /\ pc' = "done" =>
                    (/\ f \in DOMAIN snapshot'.files
                     /\ snapshot'.files[f] = cache.files[f])]_vars

\* C38 witness: a run is over in which one file was a hit at the start, with
\* content that has a diagnostic under a pass of the run, and the other file
\* was processed
C38_Witness ==
    /\ pc = "done"
    /\ \E f \in previouslyCachedFiles : ~CleanForRun(disk[f].content)
    /\ Len(passLog) > 0

\* C40: the snapshot changes only when the run writes it; the run writes it
\* in its last step only, with the store as it is after every markClean; a
\* run with caching that reached its end has written it once, also when it
\* exits non-zero; before the end, and in a run that stopped early, it has
\* not been written.
C40_SnapshotWrittenOnceAtEnd ==
    [][/\ snapshot' # snapshot => snapshotWrites' = snapshotWrites + 1
       /\ snapshotWrites' > snapshotWrites =>
             /\ pc = "finish" /\ pc' = "done"
             /\ snapshot'.state = "json"
             /\ snapshot'.files = cache'.files
       /\ (pc' = "done" /\ config'.cache) => snapshotWrites' = 1
       /\ pc' \in {"pass", "finish", "failed", "nofiles"} => snapshotWrites' = 0]_vars

\* C40 witness: a report-only run with caching is over that found issues,
\* exits non-zero and has stamped a clean file
C40_Witness ==
    /\ pc = "done"
    /\ config.cache
    /\ exitCode = 1
    /\ snapshotWrites = 1
    /\ \E f \in Files : f \in DOMAIN snapshot.files

(***************************************************************************)
(* Properties of the cache manager, checked under SpecCache.               *)
(***************************************************************************)
\* the store holds an entry for the path
HasEntry(c, path) == c.kind = "fs" /\ c.filesDefined /\ path \in DOMAIN c.files

\* a new manager of the scope of the current one, from the snapshot on disk
Reloaded == createCache(cache.version, cache.configHash, snapshot)

\* C12: isFileCached(path) returns true exactly when the store has an entry
\* for path, the file is on disk and its size and mtime both equal the entry;
\* with an entry and the file deleted it returns false and does not throw.
C12_HitIffEntryMatchesLiveStat ==
    \A path \in Files :
        /\ isFileCached(cache, disk, path) <=>
              /\ HasEntry(cache, path)
              /\ path \in DOMAIN disk
              /\ cache.files[path].size = ByteLength(disk[path].content)
              /\ cache.files[path].mtimeMs = disk[path].mtimeMs
        /\ (HasEntry(cache, path) /\ path \notin DOMAIN disk) =>
              /\ ~isFileCached(cache, disk, path)
              /\ ~isFileCachedThrows(cache)
              /\ (lastCall.op = "isFileCached" /\ lastCall.path = path) =>
                     ~lastCall.threw

\* C12 witness: isFileCached was called for a deleted file that has an entry
C12_Witness ==
    /\ lastCall.op = "isFileCached"
    /\ lastCall.path \notin DOMAIN disk
    /\ HasEntry(cache, lastCall.path)

\* the step creates a manager that starts another store: a no-op manager, or
\* one of the scope of the current manager or of the snapshot on disk
StartsOtherStore ==
    \/ lastCall'.op = "createNoopCache"
    \/ /\ lastCall'.op = "createCache"
       /\ \/ ScopeOf(cache') = ScopeOf(cache)
          \/ /\ snapshot.state \in {"json", "nofiles"}
             /\ ScopeOf(cache') = <<snapshot.version, snapshot.configHash>>

\* C13: after markClean(path) on an existing file isFileCached(path) is true,
\* and it stays true over every step of the manager and of the files until
\* the size or mtime of the file changes, the file is deleted, markDirty(path)
\* is called or a cache of another scope is created, each of which makes it
\* false.  (A step that creates a no-op manager, or a manager of the scope of
\* the current one or of the snapshot, is not constrained.)
C13_HitUntilChanged ==
    [][\A path \in Files :
          /\ (/\ lastCall'.op = "markClean" /\ lastCall'.path = path
              /\ cache.kind = "fs" /\ path \in DOMAIN disk) =>
                 isFileCached(cache', disk', path)
          /\ (isFileCached(cache, disk, path) /\ ~StartsOtherStore) =>
                 LET ended ==
                       \/ path \notin DOMAIN disk'
                       \/ /\ path \in DOMAIN disk'
                          /\ StatOf(disk'[path]) # StatOf(disk[path])
                       \/ lastCall'.op = "markDirty" /\ lastCall'.path = path
                       \/ lastCall'.op = "createCache"
                 IN  isFileCached(cache', disk', path) <=> ~ended]_vars

\* C14: a cache created with a version or configHash other than the one of
\* the snapshot on disk, or of the snapshot the current manager writes, has
\* an empty store and no hit for any file.
C14_ScopeIsolation ==
    \A s \in Scopes :
        LET fromDisk == createCache(s[1], s[2], snapshot)
            fromWrite == createCache(s[1], s[2], write(cache, snapshot))
        IN  /\ (/\ snapshot.state \in {"json", "nofiles"}
                /\ s # <<snapshot.version, snapshot.configHash>>) =>
                   /\ fromDisk.files = EmptyFiles
                   /\ fromDisk.filesDefined
                   /\ \A path \in Files : ~isFileCached(fromDisk, disk, path)
            /\ (cache.kind = "fs" /\ s # ScopeOf(cache)) =>
                   /\ fromWrite.files = EmptyFiles
                   /\ fromWrite.filesDefined
                   /\ \A path \in Files : ~isFileCached(fromWrite, disk, path)

\* C14 witness: the snapshot holds an entry that is a hit under its own scope
\* and a cache of another scope has just been created
C14_Witness ==
    /\ lastCall.op = "createCache"
    /\ snapshot.state = "json"
    /\ ScopeOf(cache) # <<snapshot.version, snapshot.configHash>>
    /\ \E path \in Files :
          isFileCached(createCache(snapshot.version, snapshot.configHash, snapshot),
                       disk, path)

\* C15: whatever the snapshot holds, createCache gives a manager with an empty
\* store when the snapshot is absent, unreadable, no JSON or JSON without a
\* files object, and no call on a manager throws.
C15_AnySnapshotIsSafe ==
    /\ ~lastCall.threw
    /\ (lastCall.op = "createCache" /\ snapshot.state # "json") =>
           cache.files = EmptyFiles

\* C16: markClean(path) leaves the store with the entry of path set to the
\* current size and mtime of the file and every other entry as it was; when
\* the file is not on disk it leaves the store as it was; it does not throw.
C16_MarkCleanStampsLiveStat ==
    [][\A path \in Files :
          (lastCall'.op = "markClean" /\ lastCall'.path = path /\ cache.kind = "fs") =>
              /\ ~lastCall'.threw
              /\ IF path \in DOMAIN disk
                 THEN /\ HasEntry(cache', path)
                      /\ cache'.files[path] = StatOf(disk[path])
                      /\ \A q \in Files \ {path} :
                            /\ HasEntry(cache', q) <=> HasEntry(cache, q)
                            /\ HasEntry(cache, q) => cache'.files[q] = cache.files[q]
                 ELSE cache' = cache]_vars

\* C17: markDirty(path) leaves the store without an entry for path and with
\* every other entry as it was, a no-op when there was none, and does not
\* throw; a path without an entry is no hit until markClean(path) is called.
C17_MarkDirtyRemovesEntry ==
    [][\A path \in Files :
          /\ (lastCall'.op = "markDirty" /\ lastCall'.path = path /\ cache.kind = "fs") =>
                /\ ~lastCall'.threw
                /\ ~HasEntry(cache', path)
                /\ ~isFileCached(cache', disk', path)
                /\ ~HasEntry(cache, path) => cache' = cache
                /\ \A q \in Files \ {path} :
                      /\ HasEntry(cache', q) <=> HasEntry(cache, q)
                      /\ HasEntry(cache, q) => cache'.files[q] = cache.files[q]
          /\ (/\ ~HasEntry(cache, path)
              /\ lastCall'.op \notin {"createCache", "createNoopCache"}
              /\ ~(lastCall'.op = "markClean" /\ lastCall'.path = path)) =>
                ~isFileCached(cache', disk', path)]_vars

\* C18: write() does not throw and leaves the store as it is; when it
\* succeeds the snapshot holds the scope and every entry of the store, also
\* when there was no cache.json before; when it fails the snapshot is the
\* former one or an unparsable rest of it, from which a cache can be created.
C18_WriteIsBestEffort ==
    [][lastCall'.op \in {"write", "writeFailed"} =>
          /\ ~lastCall'.threw
          /\ cache' = cache
          /\ (lastCall'.op = "write" /\ cache.kind = "fs") =>
                /\ snapshot'.state \in {"json", "nofiles"}
                /\ snapshot'.version = cache.version
                /\ snapshot'.configHash = cache.configHash
                /\ snapshot'.files = cache.files
          /\ lastCall'.op = "writeFailed" =>
                /\ snapshot' \in {snapshot, GarbageSnapshot}
                /\ snapshot'.state = "garbage" =>
                      \A s \in Scopes :
                          createCache(s[1], s[2], snapshot').files = EmptyFiles]_vars

\* C18 witness: a write of a store with an entry has failed and left an
\* unparsable cache.json
C18_Witness ==
    /\ lastCall.op = "writeFailed"
    /\ cache.kind = "fs"
    /\ cache.files # EmptyFiles
    /\ snapshot.state = "garbage"

\* C19 as stated: after write(), whether or not the file could be written, a
\* new manager of the same scope has the entries of the store.
C19_RoundTrip_Original ==
    (lastCall.op \in {"write", "writeFailed"} /\ cache.kind = "fs") =>
        /\ Reloaded.files = cache.files
        /\ \A path \in Files :
              isFileCached(Reloaded, disk, path) = isFileCached(cache, disk, path)

\* C19: after a write() that succeeded a new manager of the same scope has
\* exactly the entries of the store and gives the same answers.
C19_RoundTrip ==
    (lastCall.op = "write" /\ cache.kind = "fs") =>
        /\ Reloaded = cache
        /\ \A path \in Files :
              isFileCached(Reloaded, disk, path) = isFileCached(cache, disk, path)

\* C19 witness: a store with a hit and a stale entry has been written
C19_Witness ==
    /\ lastCall.op = "write"
    /\ cache.kind = "fs"
    /\ \E path \in Files : isFileCached(cache, disk, path)
    /\ \E path \in Files : HasEntry(cache, path) /\ ~isFileCached(cache, disk, path)

\* the entry of a path is the same in two stores: absent in both, or present
\* in both with the same size and mtime
SameEntry(c, d, path) ==
    /\ path \in DOMAIN c.files <=> path \in DOMAIN d.files
    /\ path \in DOMAIN c.files => c.files[path] = d.files[path]

\* C39: isFileCached leaves the store as it is, also when it answers with a
\* miss for an entry whose file is gone or has changed; markClean(p) and
\* markDirty(p) leave the entry of every other path as it is; a change of a
\* file changes no entry; and an entry whose file has its size and mtime
\* (again) is a hit.
C39_StoreFrame ==
    [][/\ lastCall'.op = "isFileCached" => cache' = cache
       /\ lastCall'.op \in {"markClean", "markDirty"} =>
             \A q \in Files \ {lastCall'.path} : SameEntry(cache', cache, q)
       /\ lastCall'.op \in {"modify", "rewrite", "delete"} => cache' = cache
       /\ \A path \in Files :
             (/\ HasEntry(cache', path)
              /\ path \in DOMAIN disk'
              /\ StatOf(disk'[path]) = cache'.files[path]) =>
                 isFileCached(cache', disk', path)]_vars

\* C39 witness: isFileCached has answered with a miss for a file that is on
\* disk with another size than its entry, while the other file has an entry
C39_Witness ==
    /\ lastCall.op = "isFileCached"
    /\ lastCall.path = "a.html"
    /\ HasEntry(cache, "a.html")
    /\ HasEntry(cache, "b.html")
    /\ "a.html" \in DOMAIN disk
    /\ StatOf(disk["a.html"]).size # cache.files["a.html"].size
    /\ ~isFileCached(cache, disk, "a.html")

(***************************************************************************)
(* Properties of the patch engine, checked under SpecFix.                  *)
(***************************************************************************)
fxChanges == [i \in 1..Len(fxDiagnostics) |-> ChangeOf(fxDiagnostics[i])]

Perms(n) == {p \in [1..n -> 1..n] : \A i, j \in 1..n : i # j => p[i] # p[j]}

\* two edits are disjoint as half-open intervals; a.end = b.start is allowed
Disjoint(a, b) == a.end <= b.start \/ b.end <= a.start

NonOverlapping(changes) ==
    \A i, j \in 1..Len(changes) : i # j => Disjoint(changes[i], changes[j])

DistinctSpans(changes) ==
    \A i, j \in 1..Len(changes) :
        i # j => <<changes[i].start, changes[i].end>> # <<changes[j].start, changes[j].end>>

KeyLess(a, b) == a.end < b.end \/ (a.end = b.end /\ a.start < b.start)

KeyEqual(a, b) == a.end = b.end /\ a.start = b.start

\* the edits in ascending (end, start) order, equal keys in input order
Ascending(changes) ==
    LET n == Len(changes)
        p == CHOOSE q \in Perms(n) :
                 \A i, j \in 1..n : i < j =>
                     \/ KeyLess(changes[q[i]], changes[q[j]])
                     \/ KeyEqual(changes[q[i]], changes[q[j]]) /\ q[i] < q[j]
    IN  [i \in 1..n |-> changes[p[i]]]

Delta(c) == Len(c.replacement) - (c.end - c.start)

\* the summed length deltas of the first k edits of s
ShiftBefore(s, k) == SumSeq([i \in 1..k |-> Delta(s[i])])

\* C1: for pairwise non-overlapping edits (adjacent and length-changing ones
\* included) the output is gap0 + r1 + gap1 + ... + rn + tail, the edits taken
\* in ascending (end, start) order: every replacement stands at its original
\* start shifted by the deltas of the edits before it, and every region
\* between, before and after the edits is the original text.
C1_SpliceLayout ==
    (fxPc = "done" /\ Len(fxDiagnostics) > 0 /\ NonOverlapping(fxChanges)) =>
        LET s == Ascending(fxChanges)
            n == Len(s)
            at(i) == s[i].start + ShiftBefore(s, i - 1)
        IN  /\ Len(fxResult) = Len(fxContent) + ShiftBefore(s, n)
            /\ Slice(fxResult, 0, s[1].start) = Slice(fxContent, 0, s[1].start)
            /\ \A i \in 1..n :
                   Slice(fxResult, at(i), at(i) + Len(s[i].replacement))
                       = s[i].replacement
            /\ \A i \in 1..(n - 1) :
                   Slice(fxResult, at(i) + Len(s[i].replacement), at(i + 1))
                       = Slice(fxContent, s[i].end, s[i + 1].start)
            /\ SliceFrom(fxResult, at(n) + Len(s[n].replacement))
                   = SliceFrom(fxContent, s[n].end)

\* C1 witness: two adjacent edits (a.end = b.start), both changing the length,
\* have been applied to a text with text before and after them.
C1_Witness ==
    /\ fxPc = "done"
    /\ Len(fxDiagnostics) = 2
    /\ NonOverlapping(fxChanges)
    /\ fxChanges[1].end = fxChanges[2].start
    /\ fxChanges[1].start > 0
    /\ fxChanges[2].end < Len(fxContent)
    /\ Delta(fxChanges[1]) > 0
    /\ Delta(fxChanges[2]) < 0

Permuted(seq, p) == [i \in 1..Len(seq) |-> seq[p[i]]]

C3_LaterEditWins ==
    (/\ fxPc = "done"
     /\ Len(fxDiagnostics) = 2
     /\ KeyEqual(fxChanges[1], fxChanges[2])
     /\ fxChanges[1].end > fxChanges[1].start
     /\ fxChanges[1].replacement # fxChanges[2].replacement) =>
        fxResult = Slice(fxContent, 0, fxChanges[2].start)
                     \o fxChanges[2].replacement
                     \o SliceFrom(fxContent, fxChanges[2].end)

\* C4: applyFixes(text, []) returns text
C4_EmptyIsIdentity ==
    (fxPc = "done" /\ fxDiagnostics = <<>>) => fxResult = fxContent

\* C4 witness: applyFixes has returned for a non-empty text and no diagnostics
C4_Witness ==
    fxPc = "done" /\ fxDiagnostics = <<>> /\ Len(fxContent) = MaxTextLen

(***************************************************************************)
(* Properties of the configuration, checked under SpecConfig.              *)
(***************************************************************************)
\* the value of one option by the layering: CLI, else config file, else default
Layered(cli, file, default) ==
    IF cli # <<>> THEN cli[1]
    ELSE IF rcFile.present /\ file # <<>> THEN file[1]
    ELSE default

C27_ConfigFileValuesKept ==
    rcPc = "run" =>
        /\ (rcRaw \cap {"--cache", "--no-cache"} = {} /\ rcFile.cache = <<TRUE>>)
              => rcConfig.cache
        /\ ("--collapse" \notin rcRaw /\ rcFile.collapse = <<TRUE>>)
              => rcConfig.collapse

\* C28: the hash of a resolved configuration and a CSS text stays the same
\* whatever fix, json, quiet, verbose and cache are set to, and changes when
\* rem, collapse, strategy, css or the CSS text changes.
C28_HashScope ==
    rcPc \in {"resolved", "run"} =>
        LET h == hashConfig(rcConfig, rcCss)
        IN  /\ \A fix, json, quiet, verbose, cch \in BOOLEAN :
                  hashConfig([rcConfig EXCEPT !.fix = fix, !.json = json,
                                              !.quiet = quiet, !.verbose = verbose,
                                              !.cache = cch], rcCss) = h
            /\ hashConfig([rcConfig EXCEPT !.rem = @ + 1], rcCss) # h
            /\ hashConfig([rcConfig EXCEPT !.collapse = ~@], rcCss) # h
            /\ hashConfig([rcConfig EXCEPT !.strategy =
                              IF @ = "tailwind" THEN "alphabetical" ELSE "tailwind"],
                          rcCss) # h
            /\ hashConfig([rcConfig EXCEPT !.css =
                              IF @ = "app.css" THEN "site.css" ELSE "app.css"],
                          rcCss) # h
            /\ \A text \in {CssContent, OtherCssContent} \ {rcCss} :
                  hashConfig(rcConfig, text) # h

\* C28 witness: the configuration of a fix run with caching and an option of
\* the config file that enters the hash
C28_Witness ==
    /\ rcPc = "run"
    /\ rcConfig.fix
    /\ rcConfig.cache
    /\ rcConfig.strategy = "alphabetical"
    /\ rcCss = OtherCssContent

\* C30, as stated: when collapse is enabled in the resolved configuration,
\* the lint pass invokes the classifier with collapse enabled.
C30_CollapsePassedThrough ==
    (rcPc = "linted" /\ rcConfig.collapse) => rcOptions.collapse

(***************************************************************************)
(* Properties of file discovery, checked under SpecFiles.                  *)
(***************************************************************************)
\* C36, as stated: a file is a template file exactly when its name does not
\* end with .css and ends with a dot followed by an allow-listed extension.
C36_TemplateIffAllowListedExtension ==
    dfPc = "done" =>
        (dfResult <=>
            /\ ~endsWith(dfName, <<".", "css">>)
            /\ \E ext \in EXTENSIONS : endsWith(dfName, <<".">> \o ext))


(***************************************************************************)
(* Properties of the two passes on text, checked under SpecScan.           *)
(***************************************************************************)
ScanRan == scPc = "sorted" \/ scPc = "linted" \/ scPc = "done"

\* C31: the diagnostics findUnsortedClasses returns for one text are in
\* strictly increasing offset order, their spans [offset, offset + length)
\* are pairwise disjoint and lie inside the text, and no search starts
\* before the end of the previous match.
C31_DiagnosticsLeftToRight ==
    ScanRan =>
        /\ \A k \in DOMAIN scSorted :
               /\ 0 <= scSorted[k].offset
               /\ scSorted[k].offset + scSorted[k].length <= Len(scText)
        /\ \A j, k \in DOMAIN scSorted :
               j < k =>
                   /\ scSorted[j].offset < scSorted[k].offset
                   /\ scSorted[j].offset + scSorted[j].length
                          <= scSorted[k].offset
        /\ \A k \in DOMAIN scSearches :
               /\ scSearches[k].from <= scSearches[k].index
               /\ k > 1 => scSearches[k].from >= scSearches[k - 1].end

\* two diagnostics, the first for a value that itself holds an attribute
C31_Witness ==
    /\ scPc = "sorted"
    /\ Len(scSorted) = 2
    /\ \E j \in (scSearches[1].index + 1)..(scSearches[1].end - 1) :
           MatchAt(scText, j).found

\* C32: every diagnostic of findUnsortedClasses is anchored to the attribute
\* value: the slice [offset, offset + length) of the content equals
\* original and sits between the two quotes, for double-quoted and
\* single-quoted class and className attributes, with or without
\* whitespace around the equals sign.
C32_AnchoredToValue ==
    ScanRan =>
        \A k \in DOMAIN scSorted :
            /\ Slice(scText, scSorted[k].offset,
                     scSorted[k].offset + scSorted[k].length)
                   = scSorted[k].original
            /\ scSorted[k].offset >= 1
            /\ scText[scSorted[k].offset] \in Quotes
            /\ scSorted[k].offset + scSorted[k].length < Len(scText)
            /\ scText[scSorted[k].offset + scSorted[k].length + 1]
                   = scText[scSorted[k].offset]

\* a double-quoted className with whitespace around the equals sign and a
\* single-quoted class without, both reported
C32_Witness ==
    /\ scPc = "sorted"
    /\ Len(scSorted) = 2
    /\ StartsWithAt(scText, ClassWord \o NameWord \o <<" ", "=", " ", DQ>>, 0)
    /\ scSorted[1].offset = 13
    /\ scText[scSorted[2].offset] = SQ
    /\ scText[scSorted[2].offset - 1] = "="
    /\ scText[scSorted[2].offset - 2] = "s"

\* C33: no pass emits a diagnostic whose canonical text equals its original
\* text: every diagnostic of findUnsortedClasses and of
\* findNonCanonicalClasses has canonical # original.
C33_CanonicalDiffersFromOriginal ==
    /\ ScanRan =>
           \A k \in DOMAIN scSorted :
               scSorted[k].canonical # scSorted[k].original
    /\ (scPc = "linted" \/ scPc = "done") =>
           \A k \in DOMAIN scLint : scLint[k].canonical # scLint[k].original

\* both passes report, the sort pass for a value written with a newline
C33_Witness ==
    /\ scPc = "linted"
    /\ scLint # <<>>
    /\ \E k \in DOMAIN scSorted :
           \E i \in DOMAIN scSorted[k].original :
               scSorted[k].original[i] = NL

\* C34: for every text and offset within it, line is 1 plus the number of
\* newlines in text[0, offset) and column is 1 plus the number of
\* characters between the last newline before offset (or the start of the
\* text) and offset, and the copies of the two passes return the same.
C34_LineAndColumn ==
    scPc = "done" =>
        /\ scPos[1].sorter.line
               = 1 + Cardinality({i \in 1..scOffset : scText[i] = NL})
        /\ scPos[1].sorter.column
               = 1 + Cardinality({i \in 1..scOffset :
                                      \A j \in i..scOffset : scText[j] # NL})
        /\ scPos[1].canonicalize = scPos[1].sorter

\* an offset on the third line, past its first column
C34_Witness ==
    /\ scPc = "done"
    /\ scPos[1].sorter.line = 3
    /\ scPos[1].sorter.column > 1

====
